---- MODULE Spec2Model ----
(***************************************************************************)
(* Wallet subscription engine of solder-cortex (src/src/indexer).          *)
(*                                                                         *)
(* Indexer keeps a map wallet -> WalletSubscription behind a RwLock.       *)
(* start_subscription registers a subscription and spawns a task group:    *)
(* a processor (process_transaction_stream), a history producer            *)
(* (get_all_transaction_history + send loop) and a live producer           *)
(* (start_continuous_stream), joined by one bounded mpsc channel and one   *)
(* CancellationToken.  stop_subscription removes the entry and cancels     *)
(* the token.                                                              *)
(*                                                                         *)
(* A subscription instance is identified by a number 1..MaxSubs; the       *)
(* per-instance variables are functions over these numbers.                *)
(***************************************************************************)
EXTENDS Integers, Sequences, FiniteSets, TLC

\* ------------------------------------------------------------------ bounds
\* Number of concurrent API callers (HTTP handlers calling into Indexer).
NumCallers == 2
\* Number of subscription instances ever created in one behaviour.
MaxSubs == 2
\* mpsc::channel::<LysTransaction>(1000), scaled down so that "full" happens.
ChannelCapacity == 2
\* MAX_HISTORICAL_TRANSACTIONS (1000) and page_size (100), scaled down.
MAX_HISTORICAL_TRANSACTIONS == 2
PageSize == 1
\* Records the WebSocket provider delivers that match a wallet, over all streams.
MaxLive == 2
\* History records the REST provider holds, over all fetches.
MaxPages == 2

\* ------------------------------------------------------- program constants
\* const MAX_RECONNECT_ATTEMPTS: u32 = 10
MAX_RECONNECT_ATTEMPTS == 10
\* const RECONNECT_DELAY_BASE_MS: u64 = 1000
RECONNECT_DELAY_BASE_MS == 1000

\* What the surroundings of one behaviour may do: how many subscriptions the
\* clients create, whether the providers fail (failed connects, disconnects,
\* failed subscribe frames, failed page requests), and how many records the
\* WebSocket and the REST provider hand out over all instances.
Environments ==
    { [subs |-> 1, faults |-> TRUE, live |-> MaxLive, pages |-> 1],
      [subs |-> 1, faults |-> FALSE, live |-> MaxLive, pages |-> MaxPages],
      [subs |-> MaxSubs, faults |-> FALSE, live |-> 1, pages |-> 0] }

Wallets == {"W1", "W2"}
Callers == 1..NumCallers
SubIds == 1..MaxSubs
NoWallet == "none"

VARIABLES
    env,            \* the surroundings of this behaviour, fixed at the start
    subscriptions,  \* Indexer.subscriptions: set of <<wallet, id>> map entries
    lock,           \* holder of the RwLock write guard, 0 when free
    call,           \* per caller: position inside start_subscription
    ret,            \* what the API call that returned last returned
    nsubs,          \* subscription instances created so far
    wallet,         \* WalletSubscription.wallet
    cancelled,      \* CancellationToken state
    chan,           \* buffered records of the mpsc channel
    rx,             \* the Receiver exists
    senders,        \* holders of a Sender clone
    proc,           \* processor task position
    received,       \* what the processor has taken from the channel so far:
                    \* [h, l: how many history / live records, last: the last one,
                    \*  failed: how many of them it left behind after a failed INSERT]
    tx_counter,     \* WalletSubscription.transactions_processed
    hist,           \* history producer task: [pc, fetched, sent]
    live,           \* live producer task: [pc, a, pending, matched, delay]
    socket,         \* the WebSocket of the live producer is open
    work            \* the call of a function that is followed on its own:
                    \* its arguments, locals and result (NoWork in the engine)

apiVars == <<env, subscriptions, lock, call, ret, nsubs, work>>
subVars == <<wallet, cancelled, chan, rx, senders>>
procVars == <<proc, received, tx_counter>>
prodVars == <<hist, live, socket>>
engineVars == <<env, subscriptions, lock, call, ret, nsubs, wallet, cancelled,
                chan, rx, senders, proc, received, tx_counter, hist, live, socket>>
vars == <<env, subscriptions, lock, call, ret, nsubs, wallet, cancelled, chan,
          rx, senders, proc, received, tx_counter, hist, live, socket, work>>

\* ------------------------------------------------------------ the map
\* subs.contains_key(wallet)
ContainsKey(w) == \E e \in subscriptions : e[1] = w

\* subs.insert(wallet, subscription): a HashMap keeps one value per key
MapInsert(m, w, s) == {e \in m : e[1] # w} \cup {<<w, s>>}

MapRemoveKeepsEntry(m, w) == m

\* subs.remove(wallet)
MapRemove(m, w) == {e \in m : e[1] # w}

MapGetAnyWallet(m, w) == {e[2] : e \in m}

\* the entry subs.remove(wallet) returns, as a set (empty for None)
MapGet(m, w) == {e[2] : e \in {x \in m : x[1] = w}}

WriteLockNeverHeld == TRUE

\* self.subscriptions.write().await completes only when no guard is held
WriteLockFree == lock = 0

\* Indexer::is_subscribed
is_subscribed(w) == ContainsKey(w)

ListOfEverySubscription ==
    {[wallet |-> wallet[s], transactions_processed |-> tx_counter[s],
      running |-> ~cancelled[s]] : s \in 1..nsubs}

\* Indexer::list_subscriptions: the wallets of the snapshot, with `running`
list_subscriptions ==
    {[wallet |-> e[1], transactions_processed |-> tx_counter[e[2]],
      running |-> ~cancelled[e[2]]] : e \in subscriptions}

NoRecord == <<"none", 0>>
NothingReceived ==
    [h |-> 0, l |-> 0, lastH |-> NoRecord, lastL |-> NoRecord, failed |-> 0]

Returned(op, w, val) == [op |-> op, w |-> w, val |-> val]

Idle == [pc |-> "idle", w |-> NoWallet, sid |-> 0]

NoWork == [fn |-> "none"]

\* Indexer::new: an empty map, no subscription, no task
NoSubscriptions ==
    /\ subscriptions = {}
    /\ lock = 0
    /\ call = [c \in Callers |-> Idle]
    /\ ret = Returned("none", NoWallet, "none")
    /\ nsubs = 0
    /\ wallet = [s \in SubIds |-> NoWallet]
    /\ cancelled = [s \in SubIds |-> FALSE]
    /\ chan = [s \in SubIds |-> <<>>]
    /\ rx = [s \in SubIds |-> FALSE]
    /\ senders = [s \in SubIds |-> {}]
    /\ proc = [s \in SubIds |-> "none"]
    /\ received = [s \in SubIds |-> NothingReceived]
    /\ tx_counter = [s \in SubIds |-> 0]
    /\ hist = [s \in SubIds |-> [pc |-> "none", fetched |-> 0, sent |-> 0]]
    /\ live = [s \in SubIds |->
                 [pc |-> "none", a |-> 0, pending |-> 0, matched |-> 0, delay |-> 0]]
    /\ socket = [s \in SubIds |-> FALSE]

Init ==
    /\ env \in Environments
    /\ NoSubscriptions
    /\ work = NoWork

\* starts that passed the check and have not yet created their instance
StartsInFlight == {c \in Callers : call[c].pc = "start_insert"}

\* --------------------------------------------------- start_subscription
\* mod.rs:86-93  take the write guard; if subs.contains_key(wallet) return
\* Ok(false), which drops the guard
StartCall(c, w) ==
    /\ call[c].pc = "idle"
    /\ WriteLockFree
    /\ IF ContainsKey(w)
       THEN /\ ret' = Returned("start", w, "AlreadyRunning")
            /\ UNCHANGED <<call, lock>>
       ELSE /\ nsubs + Cardinality(StartsInFlight) < env.subs
            /\ call' = [call EXCEPT ![c] = [pc |-> "start_insert", w |-> w, sid |-> 0]]
            /\ lock' = c
            /\ UNCHANGED ret
    /\ UNCHANGED <<env, work, subscriptions, nsubs, subVars, procVars, prodVars>>

\* mod.rs:100-109  token, channel, subscription record, insert, drop(subs)
StartInsert(c) ==
    /\ call[c].pc = "start_insert"
    /\ LET s == nsubs + 1
           w == call[c].w
       IN /\ nsubs' = s
          /\ wallet' = [wallet EXCEPT ![s] = w]
          /\ cancelled' = [cancelled EXCEPT ![s] = FALSE]
          /\ chan' = [chan EXCEPT ![s] = <<>>]
          /\ rx' = [rx EXCEPT ![s] = TRUE]
          /\ senders' = [senders EXCEPT ![s] = {"start"}]
          /\ tx_counter' = [tx_counter EXCEPT ![s] = 0]
          /\ subscriptions' = MapInsert(subscriptions, w, s)
          /\ call' = [call EXCEPT ![c] = [pc |-> "start_spawn", w |-> w, sid |-> s]]
    /\ lock' = IF lock = c THEN 0 ELSE lock
    /\ UNCHANGED <<env, work, ret, proc, received, prodVars>>

\* mod.rs:111-157  spawn processor, spawn history producer (sender clone),
\* start_continuous_stream spawns the live producer (sender moved), Ok(true)
StartSpawn(c) ==
    /\ call[c].pc = "start_spawn"
    /\ LET s == call[c].sid
       IN /\ proc' = [proc EXCEPT ![s] = "recv"]
          /\ hist' = [hist EXCEPT ![s].pc = "fetch"]
          /\ live' = [live EXCEPT ![s].pc = "top"]
          /\ senders' = [senders EXCEPT ![s] = {"hist", "live"}]
    /\ ret' = Returned("start", call[c].w, "Started")
    /\ call' = [call EXCEPT ![c] = Idle]
    /\ UNCHANGED <<env, work, subscriptions, lock, nsubs, wallet, cancelled, chan,
                   rx, received, tx_counter, socket>>

\* ---------------------------------------------------- stop_subscription
\* mod.rs:265-278  take the write guard; if let Some(subscription) =
\* subs.remove(wallet) { subscription.cancel(); true } else { false }.
\* Nothing is awaited while the guard is held, so the body is one step.
Stop(c, w) ==
    /\ call[c].pc = "idle"
    /\ WriteLockFree
    /\ LET found == MapGet(subscriptions, w)
       IN /\ subscriptions' = MapRemove(subscriptions, w)
          /\ cancelled' = [s \in SubIds |-> cancelled[s] \/ s \in found]
          /\ ret' = Returned("stop", w, IF found # {} THEN "Stopped" ELSE "NotRunning")
    /\ UNCHANGED <<env, work, lock, call, nsubs, wallet, chan, rx, senders, procVars,
                   prodVars>>

\* ------------------------------------------------------------ helpers
RECURSIVE SumTo(_, _)
SumTo(f, n) == IF n = 0 THEN 0 ELSE f[n] + SumTo(f, n - 1)

\* records the providers have handed out so far, over all instances
TotalLive == SumTo([s \in SubIds |-> live[s].matched + live[s].pending], MaxSubs)
TotalPages == SumTo([s \in SubIds |-> hist[s].fetched], MaxSubs)

\* a task that ends drops its Sender clone
DropSender(s, who) == [senders EXCEPT ![s] = @ \ {who}]

HasCapacityAlways(q) == TRUE

\* Sender::send(..).await completes once the channel has a free slot
HasCapacity(q) == Len(q) < ChannelCapacity

EnqueueAtHead(q, r) == <<r>> \o q

\* the channel is a FIFO queue: send appends at the tail
Enqueue(q, r) == Append(q, r)

\* ------------------------------------------------------ history producer
\* helius.rs:146-148  a page request fails: `?` returns Err, mod.rs:144-147
\* logs it and the task ends without sending anything
HistFetchErr(s) ==
    /\ hist[s].pc = "fetch"
    /\ env.faults
    /\ hist' = [hist EXCEPT ![s].pc = "failed"]
    /\ senders' = DropSender(s, "hist")
    /\ UNCHANGED <<apiVars, wallet, cancelled, chan, rx, procVars, live, socket>>

\* helius.rs:150-153  an empty page ends the paging
HistFetchEmpty(s) ==
    /\ hist[s].pc = "fetch"
    /\ hist' = [hist EXCEPT ![s].pc = "send"]
    /\ UNCHANGED <<apiVars, subVars, procVars, live, socket>>

\* helius.rs:155-172  a page of n records: extend, truncate at the maximum,
\* otherwise remember the cursor and sleep 100 ms
HistFetchPage(s, n) ==
    /\ hist[s].pc = "fetch"
    /\ TotalPages + n <= env.pages
    /\ LET total == hist[s].fetched + n
       IN hist' = [hist EXCEPT ![s] =
                     IF total >= MAX_HISTORICAL_TRANSACTIONS
                     THEN [@ EXCEPT !.pc = "send",
                                    !.fetched = MAX_HISTORICAL_TRANSACTIONS]
                     ELSE [@ EXCEPT !.pc = "sleep", !.fetched = total]]
    /\ UNCHANGED <<apiVars, subVars, procVars, live, socket>>

\* helius.rs:172  tokio::time::sleep(100 ms) elapses
HistSleep(s) ==
    /\ hist[s].pc = "sleep"
    /\ hist' = [hist EXCEPT ![s].pc = "fetch"]
    /\ UNCHANGED <<apiVars, subVars, procVars, live, socket>>

HistSendPageByPage(s) ==
    /\ hist[s].pc \in {"sleep", "send"}
    /\ hist[s].sent < hist[s].fetched
    /\ rx[s] /\ HasCapacity(chan[s])
    /\ chan' = [chan EXCEPT ![s] = Enqueue(@, <<"h", hist[s].sent + 1>>)]
    /\ hist' = [hist EXCEPT ![s].sent = @ + 1]
    /\ UNCHANGED <<apiVars, wallet, cancelled, rx, senders, procVars, live, socket>>

\* mod.rs:132-140  convert the next record and send it; a closed channel
\* breaks the loop and the task ends
HistSend(s) ==
    /\ hist[s].pc = "send"
    /\ hist[s].sent < hist[s].fetched
    /\ IF ~rx[s]
       THEN /\ hist' = [hist EXCEPT ![s].pc = "done"]
            /\ senders' = DropSender(s, "hist")
            /\ UNCHANGED chan
       ELSE /\ HasCapacity(chan[s])
            /\ chan' = [chan EXCEPT ![s] = Enqueue(@, <<"h", hist[s].sent + 1>>)]
            /\ hist' = [hist EXCEPT ![s].sent = @ + 1]
            /\ UNCHANGED senders
    /\ UNCHANGED <<apiVars, wallet, cancelled, rx, procVars, live, socket>>

\* mod.rs:142-149  all records sent: the task ends
HistDone(s) ==
    /\ hist[s].pc = "send"
    /\ hist[s].sent = hist[s].fetched
    /\ hist' = [hist EXCEPT ![s].pc = "done"]
    /\ senders' = DropSender(s, "hist")
    /\ UNCHANGED <<apiVars, wallet, cancelled, chan, rx, procVars, live, socket>>

\* --------------------------------------------------------- live producer
\* the live task ends: its Sender is dropped (the socket halves were dropped
\* when control left the Ok arm)
LiveEnd(s, how) ==
    /\ live' = [live EXCEPT ![s].pc = how, ![s].pending = 0]
    /\ senders' = DropSender(s, "live")

CancelNeverChecked(s) == FALSE

\* cancel_token.is_cancelled()
is_cancelled(s) == cancelled[s]

\* lyslabs.rs:294-302  top of the reconnect loop
LiveTop(s) ==
    /\ live[s].pc = "top"
    /\ IF is_cancelled(s)
       THEN LiveEnd(s, "cancelled")
       ELSE /\ live' = [live EXCEPT ![s].pc = "connecting"]
            /\ UNCHANGED senders
    /\ UNCHANGED <<apiVars, wallet, cancelled, chan, rx, procVars, hist, socket>>

\* lyslabs.rs:304-310  connect_async succeeds: the counter is reset
LiveConnectOk(s) ==
    /\ live[s].pc = "connecting"
    /\ live' = [live EXCEPT ![s].pc = "subscribe", ![s].a = 0]
    /\ socket' = [socket EXCEPT ![s] = TRUE]
    /\ UNCHANGED <<apiVars, subVars, procVars, hist>>

\* lyslabs.rs:407-410  connect_async fails
LiveConnectErr(s) ==
    /\ live[s].pc = "connecting"
    /\ env.faults
    /\ live' = [live EXCEPT ![s].pc = "check"]
    /\ UNCHANGED <<apiVars, subVars, procVars, hist, socket>>

\* lyslabs.rs:313-321  the subscribe frame is sent
LiveSubscribeOk(s) ==
    /\ live[s].pc = "subscribe"
    /\ live' = [live EXCEPT ![s].pc = "select"]
    /\ UNCHANGED <<apiVars, subVars, procVars, hist, socket>>

\* lyslabs.rs:314-318  sending the subscribe frame fails: `continue`
LiveSubscribeErr(s) ==
    /\ live[s].pc = "subscribe"
    /\ env.faults
    /\ live' = [live EXCEPT ![s].pc = "top"]
    /\ socket' = [socket EXCEPT ![s] = FALSE]
    /\ UNCHANGED <<apiVars, subVars, procVars, hist>>

CancelNeverObserved(s) == FALSE

\* cancel_token.cancelled() completes once the token is cancelled
CancelObserved(s) == cancelled[s]

\* lyslabs.rs:329-333  select! takes the cancelled() branch
LiveSelectCancelled(s) ==
    /\ live[s].pc = "select"
    /\ CancelObserved(s)
    /\ live' = [live EXCEPT ![s].pc = "check"]
    /\ socket' = [socket EXCEPT ![s] = FALSE]
    /\ UNCHANGED <<apiVars, subVars, procVars, hist>>

\* lyslabs.rs:334-347  select! takes the read branch: a text frame holding k
\* records that involve the wallet (frames without a match change nothing)
LiveSelectText(s, k) ==
    /\ live[s].pc = "select"
    /\ TotalLive + k <= env.live
    /\ live' = [live EXCEPT ![s].pc = "sending", ![s].pending = k]
    /\ UNCHANGED <<apiVars, subVars, procVars, hist, socket>>

\* lyslabs.rs:383-400  Close frame, stream error or end of stream: break
LiveSelectDisconnect(s) ==
    /\ live[s].pc = "select"
    /\ env.faults
    /\ live' = [live EXCEPT ![s].pc = "check"]
    /\ socket' = [socket EXCEPT ![s] = FALSE]
    /\ UNCHANGED <<apiVars, subVars, procVars, hist>>

\* lyslabs.rs:345-368  send the next matched record of the frame; a closed
\* channel makes the task return
LiveSend(s) ==
    /\ live[s].pc = "sending"
    /\ IF ~rx[s]
       THEN /\ LiveEnd(s, "closed")
            /\ socket' = [socket EXCEPT ![s] = FALSE]
            /\ UNCHANGED chan
       ELSE /\ HasCapacity(chan[s])
            /\ chan' = [chan EXCEPT ![s] = Enqueue(@, <<"l", live[s].matched + 1>>)]
            /\ live' = [live EXCEPT ![s].matched = @ + 1,
                                    ![s].pending = @ - 1,
                                    ![s].pc = IF live[s].pending = 1
                                              THEN "select" ELSE "sending"]
            /\ UNCHANGED <<senders, socket>>
    /\ UNCHANGED <<apiVars, wallet, cancelled, rx, procVars, hist>>

\* reconnect_attempts += 1; the budget is spent when it reaches the maximum
BudgetSpent(a) == a >= MAX_RECONNECT_ATTEMPTS

Min(a, b) == IF a <= b THEN a ELSE b

BackoffDelayUncapped(a) == RECONNECT_DELAY_BASE_MS * 2^a

\* RECONNECT_DELAY_BASE_MS * (2_u64.pow(reconnect_attempts.min(6))), in ms
BackoffDelay(a) == RECONNECT_DELAY_BASE_MS * 2^Min(a, 6)

\* lyslabs.rs:413-428  after a failed connect or the end of a connection
LiveCheck(s) ==
    /\ live[s].pc = "check"
    /\ IF is_cancelled(s)
       THEN LiveEnd(s, "cancelled")
       ELSE IF BudgetSpent(live[s].a + 1)
            THEN /\ live' = [live EXCEPT ![s].pc = "exhausted", ![s].a = @ + 1]
                 /\ senders' = DropSender(s, "live")
            ELSE /\ live' = [live EXCEPT ![s].pc = "backoff", ![s].a = @ + 1,
                                         ![s].delay = BackoffDelay(live[s].a + 1)]
                 /\ UNCHANGED senders
    /\ UNCHANGED <<apiVars, wallet, cancelled, chan, rx, procVars, hist, socket>>

\* lyslabs.rs:426-429  the backoff sleep elapses
LiveBackoff(s) ==
    /\ live[s].pc = "backoff"
    /\ live' = [live EXCEPT ![s].pc = "top", ![s].delay = 0]
    /\ UNCHANGED <<apiVars, subVars, procVars, hist, socket>>

\* -------------------------------------------------------------- processor
\* what happens to a received record (mod.rs:316-366):
\*   unparsed       parse_transaction returns None
\*   insert_failed  the INSERT returns Err, which is logged
\*   stored         the INSERT succeeds, the counter grows
\*   stored_panic   as stored, then &row.signature[..16] panics because the
\*                  signature is shorter than 16 bytes (mod.rs:347-348)
Outcomes == {"unparsed", "insert_failed", "stored", "stored_panic"}

\* rx.recv() yields the record at the head of the queue
NextRecord(q) == Head(q)

\* bookkeeping of the records handed to the loop body
Take(got, r) ==
    IF r[1] = "h"
    THEN [got EXCEPT !.h = @ + 1, !.lastH = r]
    ELSE [got EXCEPT !.l = @ + 1, !.lastL = r]

CountedAlways(o) == TRUE

\* mod.rs:344-346  the Ok arm of the INSERT increments the counter
Counted(o) == o \in {"stored", "stored_panic"}

\* mod.rs:356-364  the Err arm of the INSERT logs the error; the loop goes on
\* to the next recv() and the record is gone
LeftBehind(o) == o = "insert_failed"

DropEveryReceiver(r, s) == [t \in SubIds |-> FALSE]

\* the Receiver is owned by the processor task and dropped when it ends
DropReceiver(r, s) == [r EXCEPT ![s] = FALSE]

\* mod.rs:314-367  one iteration of `while let Some(lys_tx) = rx.recv().await`;
\* an INSERT fails only when the store misbehaves
ProcRecv(s, o) ==
    /\ proc[s] = "recv"
    /\ chan[s] # <<>>
    /\ o = "insert_failed" => env.faults
    /\ received' = [received EXCEPT ![s] =
                      [Take(@, NextRecord(chan[s])) EXCEPT
                          !.failed = IF LeftBehind(o) THEN @ + 1 ELSE @]]
    /\ chan' = [chan EXCEPT ![s] = Tail(@)]
    /\ tx_counter' = [tx_counter EXCEPT ![s] = IF Counted(o) THEN @ + 1 ELSE @]
    /\ IF o = "stored_panic"
       THEN /\ proc' = [proc EXCEPT ![s] = "panicked"]
            /\ rx' = DropReceiver(rx, s)
       ELSE UNCHANGED <<proc, rx>>
    /\ UNCHANGED <<apiVars, wallet, cancelled, senders, prodVars>>

\* recv() returns None once every Sender is dropped and the queue is empty
ChannelClosed(s) == senders[s] = {} /\ chan[s] = <<>>

\* mod.rs:314, 370-372  recv() returns None: the loop and the task end
ProcEnd(s) ==
    /\ proc[s] = "recv"
    /\ ChannelClosed(s)
    /\ proc' = [proc EXCEPT ![s] = "ended"]
    /\ rx' = DropReceiver(rx, s)
    /\ UNCHANGED <<apiVars, wallet, cancelled, chan, senders, received, tx_counter,
                   prodVars>>

\* ------------------------------------------------------------ behaviours
ApiStep ==
    \E c \in Callers :
        \/ \E w \in Wallets : StartCall(c, w)
        \/ StartInsert(c)
        \/ StartSpawn(c)
        \/ \E w \in Wallets : Stop(c, w)

HistStep(s) ==
    \/ HistFetchErr(s)
    \/ HistFetchEmpty(s)
    \/ \E n \in 1..PageSize : HistFetchPage(s, n)
    \/ HistSleep(s)
    \/ HistSend(s)
    \/ HistDone(s)

LiveStep(s) ==
    \/ LiveTop(s)
    \/ LiveConnectOk(s)
    \/ LiveConnectErr(s)
    \/ LiveSubscribeOk(s)
    \/ LiveSubscribeErr(s)
    \/ LiveSelectCancelled(s)
    \/ \E k \in 1..MaxLive : LiveSelectText(s, k)
    \/ LiveSelectDisconnect(s)
    \/ LiveSend(s)
    \/ LiveCheck(s)
    \/ LiveBackoff(s)

ProcStep(s) ==
    \/ \E o \in Outcomes : ProcRecv(s, o)
    \/ ProcEnd(s)

Next ==
    \/ ApiStep
    \/ \E s \in SubIds : HistStep(s)
    \/ \E s \in SubIds : LiveStep(s)
    \/ \E s \in SubIds : ProcStep(s)

Spec == Init /\ [][Next]_vars

\* The tokio runtime polls every spawned task that can make progress, a call
\* that holds the write guard runs on to its return, and every awaited
\* request, timer and socket operation completes or fails.
Fairness ==
    /\ \A c \in Callers : WF_vars(StartInsert(c)) /\ WF_vars(StartSpawn(c))
    /\ \A s \in SubIds :
          WF_vars(HistStep(s)) /\ WF_vars(LiveStep(s)) /\ WF_vars(ProcStep(s))

FairSpec == Init /\ [][Next]_vars /\ Fairness

\* ============================================ get_all_transaction_history
\* HeliusClient::get_all_transaction_history followed request by request,
\* against a provider that answers each request with an HTTP error or with a
\* JSON array of records of its choice.

\* the largest max_transactions tried and the longest page the provider sends
MaxRequested == 3
MaxPageLen == 2

Signatures == {"sigA", "sigB", "sigC"}
\* a record of the JSON array: its "signature" field, or Missing without one
Missing == "missing"
RawRecords == Signatures \cup {Missing}
None == "None"
HttpError == <<"http_error">>

RawPages == UNION {[1..n -> RawRecords] : n \in 0..MaxPageLen}
Responses == RawPages \cup {HttpError}

\* helius.rs:101-105, 195-198  response.json::<Vec<EnhancedTransaction>>():
\* `signature: String` carries no serde default, so an element without the
\* field fails the deserialization of the whole array
Deserialize(raw) ==
    IF \E i \in 1..Len(raw) : raw[i] = Missing
    THEN [ok |-> FALSE, page |-> <<>>]
    ELSE [ok |-> TRUE, page |-> raw]

\* helius.rs:78-105  get_transaction_history: request, status, body
get_transaction_history(resp) ==
    IF resp = HttpError THEN [ok |-> FALSE, page |-> <<>>] ELSE Deserialize(resp)

\* Vec::truncate
Truncate(q, n) == SubSeq(q, 1, Min(Len(q), n))

FirstSignature(page) == page[1]

\* helius.rs:155  transactions.last().map(|t| t.signature.clone())
LastSignature(page) == page[Len(page)]

\* helius.rs:130-132  all_transactions = Vec::new(), before = None
FetchStart(max) ==
    [fn |-> "history", max |-> max, pc |-> "request", before |-> None,
     all_transactions |-> <<>>, requests |-> <<>>, responses |-> <<>>]

HistoryInit ==
    /\ env \in {e \in Environments : e.faults}
    /\ NoSubscriptions
    /\ work \in {FetchStart(max) : max \in 1..MaxRequested}

\* helius.rs:145-169  one pass of the loop: the request with the current
\* cursor, `?` on an error, the empty-page break, extend, truncate at max,
\* the new cursor
FetchRequest(resp) ==
    /\ work.fn = "history"
    /\ work.pc = "request"
    /\ LET got == get_transaction_history(resp)
           sent == [work EXCEPT !.requests = Append(@, work.before),
                                !.responses = Append(@, resp)]
           all == work.all_transactions \o got.page
       IN work' =
            IF ~got.ok
            THEN [sent EXCEPT !.pc = "err", !.all_transactions = <<>>]
            ELSE IF got.page = <<>>
            THEN [sent EXCEPT !.pc = "ok"]
            ELSE IF Len(all) >= work.max
            THEN [sent EXCEPT !.pc = "ok",
                              !.all_transactions = Truncate(all, work.max)]
            ELSE [sent EXCEPT !.pc = "sleep", !.all_transactions = all,
                              !.before = LastSignature(got.page)]
    /\ UNCHANGED engineVars

\* helius.rs:171-173  the 100 ms sleep between two pages
FetchSleep ==
    /\ work.fn = "history"
    /\ work.pc = "sleep"
    /\ work' = [work EXCEPT !.pc = "request"]
    /\ UNCHANGED engineVars

HistoryNext ==
    \/ \E resp \in Responses : FetchRequest(resp)
    \/ FetchSleep

HistorySpec == HistoryInit /\ [][HistoryNext]_vars

\* ======================================================= parse_transaction
\* parser.rs followed call by call.  Text that the code upper-cases,
\* lower-cases or searches is a sequence of characters; text it only copies
\* or compares as a whole is a string.

UpperLetters ==
    <<"A", "B", "C", "D", "E", "F", "G", "H", "I", "J", "K", "L", "M",
      "N", "O", "P", "Q", "R", "S", "T", "U", "V", "W", "X", "Y", "Z">>
LowerLetters ==
    <<"a", "b", "c", "d", "e", "f", "g", "h", "i", "j", "k", "l", "m",
      "n", "o", "p", "q", "r", "s", "t", "u", "v", "w", "x", "y", "z">>

LetterIndex(letters, c) == CHOOSE i \in 1..Len(letters) : letters[i] = c
IsIn(letters, c) == \E i \in 1..Len(letters) : letters[i] = c

\* str::to_uppercase / str::to_lowercase on ASCII text
to_uppercase(s) ==
    [i \in 1..Len(s) |->
        IF IsIn(LowerLetters, s[i]) THEN UpperLetters[LetterIndex(LowerLetters, s[i])]
        ELSE s[i]]
to_lowercase(s) ==
    [i \in 1..Len(s) |->
        IF IsIn(UpperLetters, s[i]) THEN LowerLetters[LetterIndex(UpperLetters, s[i])]
        ELSE s[i]]

\* str::contains
contains(s, sub) ==
    \E i \in 0..(Len(s) - Len(sub)) : SubSeq(s, i + 1, i + Len(sub)) = sub

\* decoder tags and event tags a provider record may carry
DecoderTypes ==
    { <<"J", "U", "P", "I", "T", "E", "R">>,
      <<"K", "a", "m", "i", "n", "o">>,
      <<"S", "P", "L", "_", "T", "O", "K", "E", "N">>,
      <<"T", "o", "k", "e", "n", "S", "w", "a", "p">>,
      <<"P", "U", "M", "P", "_", "F", "U", "N">> }
EventTypes ==
    { <<"S", "W", "A", "P">>,
      <<"s", "w", "a", "p">>,
      <<"T", "R", "A", "N", "S", "F", "E", "R">>,
      <<"D", "E", "P", "O", "S", "I", "T">>,
      <<"S", "U", "P", "P", "L", "Y">>,
      <<"W", "I", "T", "H", "D", "R", "A", "W">>,
      <<"R", "E", "D", "E", "E", "M">>,
      <<"B", "O", "R", "R", "O", "W">>,
      <<"R", "E", "P", "A", "Y">>,
      <<"A", "D", "D", "_", "L", "I", "Q", "U", "I", "D", "I", "T", "Y">>,
      <<"R", "E", "M", "O", "V", "E", "_", "L", "I", "Q", "U", "I", "D", "I", "T", "Y">>,
      <<"M", "I", "N", "T">> }

\* parser.rs:153-175  identify_protocol_by_program_id
ProgramIds ==
    [p \in {"JUP6LkbZbjS1jKKwapdHNy74zcZ3tLUZoi5QNyVTaV4",
            "JUP4Fb2cqiRUcaTHdrPC8h2gNsA2ETXiPDD33WcGuJB",
            "675kPX9MHTjS2zt1qfr1NYHuzeLXfQM9H24wFSUt1Mp8",
            "CAMMCzo5YL8w4VFF8KVHrK22GGUsp5VTaW7grrKgrWqK",
            "KLend2g3cP87ber41L3rfCMYbkK3YqPjSSahS1E3HVK",
            "6LtLpnUFNByNXLyCoK9wA2MykKAmQNZKBdY8s47dehDc",
            "LBUZKhRxPF3XUpBCjp4YzTKgLccjZhTSDM9YuVaPwxo",
            "whirLbMiicVdio4qvUfM5KAg6Ct8VwpYzGff3uctyCc",
            "6EF8rrecthR5Dkzon8Nwu78hRvfCKubJ14M5uBEwF6P"} |->
        CASE p \in {"JUP6LkbZbjS1jKKwapdHNy74zcZ3tLUZoi5QNyVTaV4",
                    "JUP4Fb2cqiRUcaTHdrPC8h2gNsA2ETXiPDD33WcGuJB"} -> "Jupiter"
          [] p \in {"675kPX9MHTjS2zt1qfr1NYHuzeLXfQM9H24wFSUt1Mp8",
                    "CAMMCzo5YL8w4VFF8KVHrK22GGUsp5VTaW7grrKgrWqK"} -> "Raydium"
          [] p \in {"KLend2g3cP87ber41L3rfCMYbkK3YqPjSSahS1E3HVK",
                    "6LtLpnUFNByNXLyCoK9wA2MykKAmQNZKBdY8s47dehDc"} -> "Kamino"
          [] p = "LBUZKhRxPF3XUpBCjp4YzTKgLccjZhTSDM9YuVaPwxo" -> "Meteora"
          [] p = "whirLbMiicVdio4qvUfM5KAg6Ct8VwpYzGff3uctyCc" -> "Orca"
          [] OTHER -> "PumpFun"]

NoProtocol == "None"
identify_protocol_by_program_id(program_id) ==
    IF program_id \in DOMAIN ProgramIds THEN ProgramIds[program_id] ELSE NoProtocol

\* parser.rs:127-151  identify_protocol: the decoder tag first, in this order
identify_protocol(tx) ==
    LET decoder_lower == to_lowercase(tx.decoder_type)
    IN IF contains(decoder_lower, <<"j", "u", "p", "i", "t", "e", "r">>) THEN "Jupiter"
       ELSE IF contains(decoder_lower, <<"r", "a", "y", "d", "i", "u", "m">>) THEN "Raydium"
       ELSE IF contains(decoder_lower, <<"k", "a", "m", "i", "n", "o">>) THEN "Kamino"
       ELSE IF contains(decoder_lower, <<"m", "e", "t", "e", "o", "r", "a">>) THEN "Meteora"
       ELSE IF contains(decoder_lower, <<"o", "r", "c", "a">>) THEN "Orca"
       ELSE IF contains(decoder_lower, <<"p", "u", "m", "p">>) THEN "PumpFun"
       ELSE identify_protocol_by_program_id(tx.program_id)

\* parser.rs:177-186  is_swap_decoder
is_swap_decoder(decoder_type) ==
    LET decoder_lower == to_lowercase(decoder_type)
    IN \/ contains(decoder_lower, <<"s", "w", "a", "p">>)
       \/ contains(decoder_lower, <<"r", "a", "y", "d", "i", "u", "m">>)
       \/ contains(decoder_lower, <<"j", "u", "p", "i", "t", "e", "r">>)
       \/ contains(decoder_lower, <<"m", "e", "t", "e", "o", "r", "a">>)
       \/ contains(decoder_lower, <<"o", "r", "c", "a">>)
       \/ contains(decoder_lower, <<"p", "u", "m", "p">>)

\* an f64: a finite value or NaN
F(v) == [finite |-> TRUE, v |-> v]
NaN == [finite |-> FALSE, v |-> 0]

\* Decimal::try_from(x).unwrap_or_default(): NaN has no Decimal
DecimalFrom(x) == IF x.finite THEN x.v ELSE 0

\* the amount strings tried and what str::parse::<f64>() makes of them
AmountStrings == {"7", "abc", ""}
ParseF64(s) ==
    CASE s = "7" -> [ok |-> TRUE, v |-> F(7)]
      [] s = "0" -> [ok |-> TRUE, v |-> F(0)]
      [] OTHER -> [ok |-> FALSE, v |-> F(0)]

\* tx.amount.parse::<f64>().unwrap_or(0.0)
ParseAmountOrZero(s) == IF ParseF64(s).ok THEN ParseF64(s).v ELSE F(0)

\* Option<LysTokenAmount>
NoToken == [none |-> TRUE]
TokenAmounts ==
    { NoToken,
      [mint |-> "MINT_A", ui_amount |-> F(2)],
      [mint |-> "MINT_A", ui_amount |-> F(0)],
      [mint |-> "MINT_A", ui_amount |-> NaN],
      [mint |-> "", ui_amount |-> F(2)] }

\* Option<ParsedTransaction>
NoResult == [none |-> TRUE]

ParseWallet == "W1"
Accounts == {ParseWallet, "other"}

\* parser.rs:199-203, 217-221  if tx.ui_amount != 0.0 { tx.ui_amount } else
\* { tx.amount.parse::<f64>().unwrap_or(0.0) }
TransferAmount(tx) ==
    IF tx.ui_amount # F(0) THEN tx.ui_amount ELSE ParseAmountOrZero(tx.amount)

\* parser.rs:190-208  the token handed over: the dedicated field, else the
\* transfer fields when the wallet is the source
SwapTokenIn(tx, w) ==
    IF tx.token_in # NoToken
    THEN <<tx.token_in.mint, DecimalFrom(tx.token_in.ui_amount)>>
    ELSE IF tx.mint # "" /\ tx.source = w
    THEN <<tx.mint, DecimalFrom(TransferAmount(tx))>>
    ELSE <<"", 0>>

\* parser.rs:210-226  the token received: the dedicated field, else the
\* transfer fields when the wallet is the destination
SwapTokenOut(tx, w) ==
    IF tx.token_out # NoToken
    THEN <<tx.token_out.mint, DecimalFrom(tx.token_out.ui_amount)>>
    ELSE IF tx.mint # "" /\ tx.destination = w
    THEN <<tx.mint, DecimalFrom(TransferAmount(tx))>>
    ELSE <<"", 0>>

\* parser.rs:228-231  if token_in.is_empty() && token_out.is_empty()
SkipSwap(tin, tout) == tin[1] = "" /\ tout[1] = ""

\* parser.rs:188-242  parse_swap
parse_swap(tx, w, protocol) ==
    LET tin == SwapTokenIn(tx, w)
        tout == SwapTokenOut(tx, w)
    IN IF SkipSwap(tin, tout) THEN NoResult
       ELSE [signature |-> tx.tx_signature, wallet |-> w, protocol |-> protocol,
             tx_type |-> "Swap", token_in |-> tin[1], token_out |-> tout[1],
             amount_in |-> tin[2], amount_out |-> tout[2], usd_value |-> 0,
             block_time |-> tx.block_time * 1000, slot |-> tx.slot]

\* parser.rs:244-270  parse_lending_operation
parse_lending_operation(tx, w, protocol, tx_type) ==
    [signature |-> tx.tx_signature, wallet |-> w, protocol |-> protocol,
     tx_type |-> tx_type, token_in |-> tx.mint, token_out |-> "",
     amount_in |-> DecimalFrom(TransferAmount(tx)), amount_out |-> 0,
     usd_value |-> 0, block_time |-> tx.block_time * 1000, slot |-> tx.slot]

\* parser.rs:42-125  parse_transaction
parse_transaction(tx, w) ==
    LET protocol == identify_protocol(tx)
        event == to_uppercase(tx.event_type)
    IN IF protocol = NoProtocol THEN NoResult
       ELSE IF event = <<"S", "W", "A", "P">> THEN parse_swap(tx, w, protocol)
       ELSE IF event = <<"T", "R", "A", "N", "S", "F", "E", "R">> THEN NoResult
       ELSE IF event \in {<<"D", "E", "P", "O", "S", "I", "T">>,
                          <<"S", "U", "P", "P", "L", "Y">>}
       THEN parse_lending_operation(tx, w, protocol, "Deposit")
       ELSE IF event \in {<<"W", "I", "T", "H", "D", "R", "A", "W">>,
                          <<"R", "E", "D", "E", "E", "M">>}
       THEN parse_lending_operation(tx, w, protocol, "Withdraw")
       ELSE IF event = <<"B", "O", "R", "R", "O", "W">>
       THEN parse_lending_operation(tx, w, protocol, "Borrow")
       ELSE IF event = <<"R", "E", "P", "A", "Y">>
       THEN parse_lending_operation(tx, w, protocol, "Repay")
       ELSE IF is_swap_decoder(tx.decoder_type) THEN parse_swap(tx, w, protocol)
       ELSE NoResult

\* the provider records tried: every decoder tag, event tag and kind of
\* program id, with the swap fields, the transfer fields or both filled
TxHeads ==
    [decoder_type : DecoderTypes, event_type : EventTypes,
     program_id : {"JUP6LkbZbjS1jKKwapdHNy74zcZ3tLUZoi5QNyVTaV4",
                   "KLend2g3cP87ber41L3rfCMYbkK3YqPjSSahS1E3HVK", "unknown"}]
TxBodies ==
    [token_in : TokenAmounts, token_out : TokenAmounts, mint : {""},
     source : {"other"}, destination : {"other"}, ui_amount : {F(0)},
     amount : {""}]
    \cup
    [token_in : {NoToken}, token_out : {NoToken}, mint : {"", "MINT_B"},
     source : Accounts, destination : Accounts, ui_amount : {F(0), F(3)},
     amount : AmountStrings \ {""}]
    \cup
    [token_in : TokenAmounts, token_out : {NoToken}, mint : {"MINT_B"},
     source : {"other"}, destination : {ParseWallet}, ui_amount : {F(3)},
     amount : {""}]

LysTransaction(head, body) ==
    [tx_signature |-> "5VERv8NMvzbJMEkV8xnrLkEaWRtSz9CosKDYjCJjBRnb",
     slot |-> 1, block_time |-> 1700,
     decoder_type |-> head.decoder_type, event_type |-> head.event_type,
     program_id |-> head.program_id,
     token_in |-> body.token_in, token_out |-> body.token_out,
     mint |-> body.mint, source |-> body.source,
     destination |-> body.destination, ui_amount |-> body.ui_amount,
     amount |-> body.amount]

ParseInit ==
    /\ env \in {e \in Environments : e.faults}
    /\ NoSubscriptions
    /\ work \in {[fn |-> "parse", pc |-> "call", tx |-> LysTransaction(h, b),
                   wallet |-> ParseWallet, result |-> NoResult] :
                     h \in TxHeads, b \in TxBodies}

\* mod.rs:316  parse_transaction(&lys_tx, &wallet)
ParseCall ==
    /\ work.fn = "parse"
    /\ work.pc = "call"
    /\ work' = [work EXCEPT !.pc = "done",
                            !.result = parse_transaction(work.tx, work.wallet)]
    /\ UNCHANGED engineVars

ParseNext == ParseCall

ParseSpec == ParseInit /\ [][ParseNext]_vars

\* ================================================== decoding to a record
\* The two ways a record reaches parse_transaction: a JSON value of the live
\* stream through LysTransaction::from_value and the wallet filter, and a
\* history record through Indexer::convert_helius_to_lys; and the JSON that
\* #[derive(Serialize)] writes for a decoded record.  (The wallet filter
\* between from_value and the channel only drops records.)

\* serde_json::Value: t is "null", "bool", "str", "num", "obj" (v a record of
\* the members) or "arr" (v a sequence); "absent" is the None of Map::get
J(t, v) == [t |-> t, v |-> v]

GetFirstKeyOnly(obj, keys) ==
    IF keys[1] \in DOMAIN obj THEN obj[keys[1]] ELSE J("absent", 0)

\* lyslabs.rs:565-568  obj.get(k1).or_else(|| obj.get(k2))...: the member
\* under the first of the keys that the object has
Get(obj, keys) ==
    LET has == {i \in 1..Len(keys) : keys[i] \in DOMAIN obj}
    IN IF has = {} THEN J("absent", 0)
       ELSE obj[keys[CHOOSE i \in has : \A j \in has : i <= j]]

\* lyslabs.rs:568-569  .and_then(|v| v.as_str()).unwrap_or(""), and the same
\* with as_u64 / as_i64 / as_f64 and 0
As(v, t, default) == IF v.t = t THEN v.v ELSE default

\* lyslabs.rs:755-803  LysTokenAmount::from_value
token_from_value(v) ==
    IF v.t # "obj" THEN NoToken
    ELSE LET amount == Get(v.v, <<"amount">>)
             to_string(n) == IF n = 7 THEN "7" ELSE "0"
         IN [mint |-> As(Get(v.v, <<"mint">>), "str", ""),
             amount |-> IF amount.t = "absent" THEN ""
                        ELSE IF amount.t = "str" THEN amount.v
                        ELSE IF amount.t = "num" /\ amount.v >= 0
                        THEN to_string(amount.v)
                        ELSE "0",
             ui_amount |-> F(As(Get(v.v, <<"uiAmount", "ui_amount">>), "num", 0)),
             decimals |-> LET d == As(Get(v.v, <<"decimals">>), "num", 0)
                          IN IF d >= 0 THEN d % 256 ELSE 0,
             owner |-> As(Get(v.v, <<"owner", "authority">>), "str", "")]

\* Option<LysTransaction>
NoTx == [none |-> TRUE]

\* lyslabs.rs:561-721  LysTransaction::from_value
from_value(v) ==
    IF v.t # "obj" THEN NoTx
    ELSE
    LET obj == v.v
        tx_signature ==
            As(Get(obj, <<"txSignature", "signature", "tx_signature">>), "str", "")
        slot == As(Get(obj, <<"slot">>), "num", 0)
        source == As(Get(obj, <<"source", "from", "authority">>), "str", "")
        destination == As(Get(obj, <<"destination", "to">>), "str", "")
        fee_payer == As(Get(obj, <<"feePayer", "fee_payer">>), "str", "")
        token_in == token_from_value(Get(obj, <<"tokenIn", "token_in">>))
        token_out == token_from_value(Get(obj, <<"tokenOut", "token_out">>))
        NonEmpty(s) == IF s = "" THEN <<>> ELSE <<s>>
        Owner(tok) == IF tok = NoToken THEN <<>> ELSE NonEmpty(tok.owner)
        accs == Get(obj, <<"accounts">>)
        listed == IF accs.t # "arr" THEN <<>>
                  ELSE LET strs == {i \in 1..Len(accs.v) : accs.v[i].t = "str"}
                           RECURSIVE Pick(_)
                           Pick(i) == IF i > Len(accs.v) THEN <<>>
                                      ELSE (IF i \in strs THEN <<accs.v[i].v>> ELSE <<>>)
                                           \o Pick(i + 1)
                       IN Pick(1)
        ui == Get(obj, <<"uiAmount", "ui_amount">>)
        amount == Get(obj, <<"amount">>)
        to_string(n) == IF n = 7 THEN "7" ELSE "0"
    IN IF tx_signature = "" THEN NoTx
       ELSE [tx_signature |-> tx_signature,
             slot |-> IF slot >= 0 THEN slot ELSE 0,
             block_time |-> As(Get(obj, <<"blockTime", "block_time">>), "num", 0),
             decoder_type |-> As(Get(obj, <<"decoderType", "decoder_type">>), "str", <<>>),
             event_type |-> As(Get(obj, <<"eventType", "event_type">>), "str", <<>>),
             mint |-> As(Get(obj, <<"mint">>), "str", ""),
             source |-> source, destination |-> destination,
             fee_payer |-> fee_payer,
             program_id |-> As(Get(obj, <<"programId", "program_id">>), "str", ""),
             pool |-> As(Get(obj, <<"pool", "ammId", "poolAddress">>), "str", ""),
             token_in |-> token_in, token_out |-> token_out,
             accounts |-> NonEmpty(source) \o NonEmpty(destination)
                          \o NonEmpty(fee_payer) \o Owner(token_in)
                          \o Owner(token_out) \o listed,
             ui_amount |-> F(IF ui.t = "num" THEN ui.v
                             ELSE IF ui.t = "obj"
                             THEN As(Get(ui.v, <<"value">>), "num", 0)
                             ELSE 0),
             amount |-> IF amount.t = "absent" THEN ""
                        ELSE IF amount.t = "str" THEN amount.v
                        ELSE IF amount.t = "num" THEN to_string(amount.v)
                        ELSE "0"]

\* lyslabs.rs:523-557, 745-752  #[derive(Serialize)] of LysTransaction and of
\* LysTokenAmount: one member per field under the field's own name, None as
\* null, a non-finite f64 as null
to_value(tx) ==
    LET Float(x) == IF x.finite THEN J("num", x.v) ELSE J("null", 0)
        Token(tok) ==
            IF tok = NoToken THEN J("null", 0)
            ELSE J("obj", [mint |-> J("str", tok.mint),
                           amount |-> J("str", tok.amount),
                           ui_amount |-> Float(tok.ui_amount),
                           decimals |-> J("num", tok.decimals),
                           owner |-> J("str", tok.owner)])
    IN J("obj",
         [tx_signature |-> J("str", tx.tx_signature),
          slot |-> J("num", tx.slot),
          block_time |-> J("num", tx.block_time),
          decoder_type |-> J("str", tx.decoder_type),
          event_type |-> J("str", tx.event_type),
          mint |-> J("str", tx.mint),
          source |-> J("str", tx.source),
          destination |-> J("str", tx.destination),
          fee_payer |-> J("str", tx.fee_payer),
          program_id |-> J("str", tx.program_id),
          pool |-> J("str", tx.pool),
          token_in |-> Token(tx.token_in),
          token_out |-> Token(tx.token_out),
          accounts |-> J("arr", [i \in 1..Len(tx.accounts) |-> J("str", tx.accounts[i])]),
          ui_amount |-> Float(tx.ui_amount),
          amount |-> J("str", tx.amount)])

\* mod.rs:160-260  Indexer::convert_helius_to_lys.  An Option is a sequence
\* of at most one element; raw_token_amount.decimals is 0 in the records
\* tried, so the division is by 1
convert_helius_to_lys(helius_tx, w) ==
    LET tx_type == to_uppercase(helius_tx.tx_type)
        swap == helius_tx.events_swap
        Amount(side) ==
            IF side = <<>> THEN NoToken
            ELSE [mint |-> side[1].mint, amount |-> side[1].token_amount,
                  ui_amount |-> ParseAmountOrZero(side[1].token_amount),
                  decimals |-> 0, owner |-> side[1].user_account]
        transfers == helius_tx.token_transfers
        RECURSIVE Parties(_)
        Parties(i) == IF i > Len(transfers) THEN <<>>
                      ELSE <<transfers[i].from_user_account,
                             transfers[i].to_user_account>> \o Parties(i + 1)
    IN [tx_signature |-> helius_tx.signature,
        slot |-> helius_tx.slot,
        block_time |-> helius_tx.timestamp,
        decoder_type |-> IF helius_tx.source # <<>>
                         THEN to_uppercase(helius_tx.source[1]) ELSE tx_type,
        event_type |-> IF tx_type = <<"U", "N", "K", "N", "O", "W", "N">> /\ swap # <<>>
                       THEN <<"S", "W", "A", "P">> ELSE tx_type,
        mint |-> IF transfers = <<>> THEN "" ELSE transfers[1].mint,
        source |-> IF transfers = <<>> THEN "" ELSE transfers[1].from_user_account,
        destination |-> IF transfers = <<>> THEN "" ELSE transfers[1].to_user_account,
        fee_payer |-> helius_tx.fee_payer,
        program_id |-> "", pool |-> "",
        token_in |-> IF swap = <<>> THEN NoToken ELSE Amount(swap[1].token_inputs),
        token_out |-> IF swap = <<>> THEN NoToken ELSE Amount(swap[1].token_outputs),
        accounts |-> <<w, helius_tx.fee_payer>> \o Parties(1),
        ui_amount |-> F(0), amount |-> ""]

\* the JSON values of the live stream that are tried: every spelling of the
\* keys that from_value reads, members of the wrong type, members left out
JsonRecords ==
    LET Str(s) == J("str", s)
        Num(n) == J("num", n)
        TokenIn == J("obj", [mint |-> Str("MINT_A"), uiAmount |-> Num(2),
                             owner |-> Str(ParseWallet), amount |-> Num(7)])
        TokenOut == J("obj", [mint |-> Str("MINT_B"), ui_amount |-> Num(5),
                              authority |-> Str("other"), decimals |-> Num(6)])
        Sig == { [txSignature |-> Str("sigA")],
                 [signature |-> Str("sigA")],
                 [tx_signature |-> Str("sigA")],
                 [txSignature |-> Num(5), signature |-> Str("sigA")],
                 [signature |-> Str("")],
                 [slot |-> Num(9)] }
        Time == { [blockTime |-> Num(1700), slot |-> Num(3)],
                  [block_time |-> Num(1700), slot |-> Num(0 - 3)],
                  [blockTime |-> Str("1700")],
                  [blockTime |-> Num(0 - 5)],
                  [memo |-> Str("no time")] }
        Tags == { [decoderType |-> Str(<<"J", "U", "P", "I", "T", "E", "R">>),
                   eventType |-> Str(<<"S", "W", "A", "P">>)],
                  [decoder_type |-> Str(<<"K", "a", "m", "i", "n", "o">>),
                   event_type |-> Str(<<"D", "E", "P", "O", "S", "I", "T">>)],
                  [programId |-> Str("KLend2g3cP87ber41L3rfCMYbkK3YqPjSSahS1E3HVK"),
                   eventType |-> Str(<<"R", "E", "P", "A", "Y">>)],
                  [program_id |-> Str("JUP6LkbZbjS1jKKwapdHNy74zcZ3tLUZoi5QNyVTaV4"),
                   decoderType |-> Num(1)] }
        Body == { [tokenIn |-> TokenIn, tokenOut |-> TokenOut],
                  [token_in |-> TokenIn, token_out |-> J("null", 0),
                   feePayer |-> Str(ParseWallet)],
                  [tokenIn |-> Str("MINT_A"), mint |-> Str("MINT_B"),
                   from |-> Str(ParseWallet), to |-> Str("other"),
                   uiAmount |-> J("obj", [value |-> Num(3)])],
                  [mint |-> Str("MINT_B"), authority |-> Str("other"),
                   destination |-> Str(ParseWallet), ui_amount |-> Num(3),
                   amount |-> Str("abc")],
                  [mint |-> Str("MINT_B"), source |-> Str(ParseWallet),
                   amount |-> Num(7), pool |-> Str("POOL"),
                   accounts |-> J("arr", <<Str("other"), Num(1)>>)],
                  [mint |-> Str("MINT_B"), source |-> Str("other"),
                   fee_payer |-> Str("other"), amount |-> J("bool", TRUE),
                   uiAmount |-> Str("3"), ammId |-> Str("POOL"),
                   accounts |-> J("arr", <<Str(ParseWallet)>>)] }
    IN {J("obj", s @@ t @@ g @@ b) : s \in Sig, t \in Time, g \in Tags, b \in Body}
       \cup {J("str", "sigA"), J("null", 0)}

\* the history records that are tried follow helius.rs:194-222
\* (EnhancedTransaction)
DecodeInit ==
    /\ env \in {e \in Environments : e.faults}
    /\ NoSubscriptions
    /\ LET Side == [mint |-> "MINT_A", token_amount |-> "7", user_account |-> ParseWallet]
           HeliusRecords ==
               [signature : {"sigA", ""}, slot : {4}, timestamp : {1700, 0},
                fee_payer : {ParseWallet},
                tx_type : {<<"S", "W", "A", "P">>,
                           <<"U", "N", "K", "N", "O", "W", "N">>,
                           <<"d", "e", "p", "o", "s", "i", "t">>},
                source : {<<>>, <<<<"J", "u", "p", "i", "t", "e", "r">>>>},
                events_swap : {<<>>, <<[token_inputs |-> <<Side>>,
                                        token_outputs |-> <<>>]>>},
                token_transfers : {<<>>, <<[from_user_account |-> "other",
                                            to_user_account |-> ParseWallet,
                                            mint |-> "MINT_B"]>>}]
           Start(via, raw) ==
               [fn |-> "decode", via |-> via, pc |-> via, raw |-> raw,
                wallet |-> ParseWallet, tx |-> NoTx, result |-> NoResult,
                json |-> J("null", 0), again |-> NoResult]
       IN work \in {Start("live", v) : v \in JsonRecords}
                    \cup {Start("history", h) : h \in HeliusRecords}

\* lyslabs.rs:341-343, 501-519  extract_transactions: from_value on the value
\* received; a value it rejects is skipped
DecodeLive ==
    /\ work.fn = "decode" /\ work.pc = "live"
    /\ LET tx == from_value(work.raw)
       IN work' = IF tx = NoTx THEN [work EXCEPT !.pc = "rejected"]
                  ELSE [work EXCEPT !.pc = "decoded", !.tx = tx]
    /\ UNCHANGED engineVars

\* mod.rs:120-127  the history producer converts each fetched record
DecodeHistory ==
    /\ work.fn = "decode" /\ work.pc = "history"
    /\ work' = [work EXCEPT !.pc = "decoded",
                            !.tx = convert_helius_to_lys(work.raw, work.wallet)]
    /\ UNCHANGED engineVars

\* mod.rs:314-316  the processor parses the record it received
DecodeParse ==
    /\ work.fn = "decode" /\ work.pc = "decoded"
    /\ work' = [work EXCEPT !.pc = "parsed",
                            !.result = parse_transaction(work.tx, work.wallet)]
    /\ UNCHANGED engineVars

\* the decoded record written as JSON, decoded again and parsed again
DecodeRoundTrip ==
    /\ work.fn = "decode" /\ work.pc = "parsed"
    /\ LET json == to_value(work.tx)
           tx == from_value(json)
       IN work' = [work EXCEPT !.pc = "again", !.json = json,
                               !.again = IF tx = NoTx THEN NoResult
                                         ELSE parse_transaction(tx, work.wallet)]
    /\ UNCHANGED engineVars

DecodeNext == DecodeLive \/ DecodeHistory \/ DecodeParse \/ DecodeRoundTrip

DecodeSpec == DecodeInit /\ [][DecodeNext]_vars

\* ============================================================ compute_risk
\* metrics/risk.rs.  A Decimal share is the exact quotient n / d: Decimal
\* keeps 28 digits and the f64 parse of the product rounds to the nearest
\* double, so for amounts below 10^13 the integer the code obtains from
\* `(share * 40).to_string().parse::<f64>() as u8` is that of the exact
\* quotient.
Q(n, d) == [n |-> n, d |-> d]

AsU8Wrapping(x) == x % 256

\* risk.rs:99-102  `<f64> as u8`: the cast truncates and saturates
AsU8(x) == IF x < 0 THEN 0 ELSE IF x > 255 THEN 255 ELSE x

\* risk.rs:86-130  calculate_risk_score; `score` is a u8
calculate_risk_score(largest_position_pct, protocol_concentration, protocol_count, position_count) ==
    LET Times(q, k) == (q.n * k) \div q.d
        concentration_score == AsU8(Times(largest_position_pct, 40))
        protocol_risk == AsU8(Times(protocol_concentration, 30))
        diversification_bonus ==
            IF protocol_count <= 1 THEN 20
            ELSE IF protocol_count = 2 THEN 10
            ELSE IF protocol_count = 3 THEN 5 ELSE 0
        position_factor ==
            IF position_count = 0 THEN 10
            ELSE IF position_count <= 3 THEN 5
            ELSE IF position_count <= 10 THEN 0 ELSE 5
        score == (Min(concentration_score, 40) + Min(protocol_risk, 30)
                  + diversification_bonus + position_factor) % 256
    IN Min(score, 100)

LargestPerProtocol(positions) ==
    [p \in {k[2] : k \in DOMAIN positions} |->
        CHOOSE v \in {positions[k] : k \in {j \in DOMAIN positions : j[2] = p}} :
            \A k \in {j \in DOMAIN positions : j[2] = p} : positions[k] <= v]

\* risk.rs:62-66  the position values summed per protocol
protocol_values(positions) ==
    LET RECURSIVE Sum(_)
        Sum(keys) == IF keys = {} THEN 0
                     ELSE LET k == CHOOSE j \in keys : TRUE
                          IN positions[k] + Sum(keys \ {k})
    IN [p \in {k[2] : k \in DOMAIN positions} |->
            Sum({k \in DOMAIN positions : k[2] = p})]

\* risk.rs:17-84  compute_risk.  `positions` is the HashMap keyed by
\* (token, protocol): entry().or_default() creates the key on a withdrawal
\* too
compute_risk(transactions) ==
    LET Entry(m, k) == IF k \in DOMAIN m THEN m[k] ELSE 0
        Fold(m, tx) ==
            IF tx.tx_type \in {"Deposit", "AddLiquidity", "Borrow"}
            THEN LET k == <<tx.token_in, tx.protocol>>
                 IN (k :> Entry(m, k) + tx.usd_value) @@ m
            ELSE IF tx.tx_type \in {"Withdraw", "RemoveLiquidity", "Repay"}
            THEN LET k == <<tx.token_out, tx.protocol>>
                     left == Entry(m, k) - tx.usd_value
                 IN (k :> IF left > 0 THEN left ELSE 0) @@ m
            ELSE m
        RECURSIVE After(_)
        After(n) == IF n = 0 THEN <<>> ELSE Fold(After(n - 1), transactions[n])
        positions == After(Len(transactions))
        protocols == {transactions[i].protocol : i \in 1..Len(transactions)}
        Largest(f) == IF DOMAIN f = {} THEN 0
                      ELSE CHOOSE v \in {f[k] : k \in DOMAIN f} :
                               \A k \in DOMAIN f : f[k] <= v
        RECURSIVE Sum(_)
        Sum(keys) == IF keys = {} THEN 0
                     ELSE LET k == CHOOSE j \in keys : TRUE
                          IN positions[k] + Sum(keys \ {k})
        total_value == Sum(DOMAIN positions)
        largest_position_pct ==
            IF total_value > 0 THEN Q(Largest(positions), total_value) ELSE Q(0, 1)
        protocol_concentration ==
            IF total_value > 0
            THEN Q(Largest(protocol_values(positions)), total_value) ELSE Q(0, 1)
    IN IF transactions = <<>>
       THEN [score |-> 0, largest_position_pct |-> Q(0, 1), position_count |-> 0,
             protocol_concentration |-> Q(0, 1), protocol_count |-> 0]
       ELSE [score |-> calculate_risk_score(largest_position_pct,
                           protocol_concentration, Cardinality(protocols),
                           Cardinality(DOMAIN positions) % 65536),
             largest_position_pct |-> largest_position_pct,
             position_count |-> Cardinality(DOMAIN positions) % 65536,
             protocol_concentration |-> protocol_concentration,
             protocol_count |-> Cardinality(protocols)]

\* the longest transaction list tried
MaxRiskTxs == 4

\* the shares tried as arguments of calculate_risk_score, from below 0 to
\* far above 1
RiskShares == {Q(n, d) : n \in {0 - 1, 0, 1, 2, 3, 5, 8, 30}, d \in {1, 3, 4, 40}}

\* a call of calculate_risk_score with any of the shares and counts, or a
\* call of compute_risk with a list of the transactions RiskTxs
RiskInit ==
    /\ env \in {e \in Environments : e.faults}
    /\ NoSubscriptions
    /\ LET Tx(tx_type, token, protocol, usd) ==
               [tx_type |-> tx_type, protocol |-> protocol,
                token_in |-> IF tx_type = "Deposit" THEN token ELSE "",
                token_out |-> IF tx_type = "Withdraw" THEN token ELSE "",
                usd_value |-> usd]
           RiskTxs == { Tx("Deposit", "SOL", "Jupiter", 2500),
                        Tx("Deposit", "USDC", "Jupiter", 2500),
                        Tx("Deposit", "SOL", "Kamino", 2500),
                        Tx("Deposit", "SOL", "Raydium", 2500),
                        Tx("Deposit", "SOL", "Jupiter", 10000),
                        Tx("Withdraw", "SOL", "Jupiter", 2500),
                        Tx("Swap", "SOL", "Orca", 700) }
       IN work \in {[fn |-> "risk", pc |-> "score", result |-> 0,
                      largest_position_pct |-> l, protocol_concentration |-> p,
                      protocol_count |-> c, position_count |-> n] :
                        l \in RiskShares, p \in RiskShares, c \in 0..5,
                        n \in {0, 1, 3, 4, 10, 11}}
                \cup
                    {[fn |-> "risk", pc |-> "compute", result |-> 0,
                      transactions |-> txs] :
                        txs \in UNION {[1..n -> RiskTxs] : n \in 0..MaxRiskTxs}}

\* risk.rs:71-76  the call of calculate_risk_score
RiskScore ==
    /\ work.fn = "risk" /\ work.pc = "score"
    /\ work' = [work EXCEPT
                  !.pc = "scored",
                  !.result = calculate_risk_score(work.largest_position_pct,
                                 work.protocol_concentration,
                                 work.protocol_count, work.position_count)]
    /\ UNCHANGED engineVars

\* risk.rs:17  the call of compute_risk
RiskCompute ==
    /\ work.fn = "risk" /\ work.pc = "compute"
    /\ work' = [work EXCEPT !.pc = "computed",
                            !.result = compute_risk(work.transactions)]
    /\ UNCHANGED engineVars

RiskNext == RiskScore \/ RiskCompute

RiskSpec == RiskInit /\ [][RiskNext]_vars

\* ============================================================= compute_pnl
\* metrics/pnl.rs, followed transaction by transaction.  Amounts and USD
\* values are whole numbers, a cost basis is an exact quotient (it is
\* multiplied by 1 - amount_out / amount), times are in days.

\* the longest transaction list tried
MaxPnlTxs == 3

\* Utc::now() of the run, in days
PnlNow == 100

\* the transactions tried: block_time is `age` days before now
PnlTxs ==
    LET Tx(tx_type, token_in, amount_in, token_out, amount_out, usd, age) ==
            [tx_type |-> tx_type, token_in |-> token_in, amount_in |-> amount_in,
             token_out |-> token_out, amount_out |-> amount_out,
             usd_value |-> usd, block_time |-> PnlNow - age]
    IN { Tx("Deposit", "SOL", 10, "", 0, 100, 40),
         Tx("Deposit", "SOL", 5, "", 0, 50, 0),
         Tx("AddLiquidity", "USDC", 6, "", 0, 60, 3),
         Tx("Withdraw", "", 0, "SOL", 10, 100, 0),
         Tx("Withdraw", "", 0, "SOL", 4, 40, 3),
         Tx("RemoveLiquidity", "", 0, "USDC", 6, 60, 10),
         Tx("Withdraw", "SOL", 10, "", 0, 100, 40),
         Tx("Swap", "SOL", 4, "USDC", 8, 40, 10),
         Tx("Borrow", "SOL", 3, "", 0, 30, 0) }

\* mod.rs:316, parser.rs:42-125  a DEPOSIT event and a WITHDRAW event of the
\* same amount of the same mint, each normalised by parse_transaction
DepositThenWithdraw ==
    LET Event(b, event_type) ==
            LysTransaction([decoder_type |-> <<"K", "a", "m", "i", "n", "o">>,
                            event_type |-> event_type,
                            program_id |->
                                "KLend2g3cP87ber41L3rfCMYbkK3YqPjSSahS1E3HVK"], b)
    IN { << parse_transaction(Event(b, <<"D", "E", "P", "O", "S", "I", "T">>),
                              ParseWallet),
            parse_transaction(Event(b, <<"W", "I", "T", "H", "D", "R", "A", "W">>),
                              ParseWallet) >> :
           b \in {t \in TxBodies : /\ t.mint # ""
                                   /\ DecimalFrom(TransferAmount(t)) > 0} }

\* pnl.rs:19-28  the windows, PnlMetrics::default(), an empty position map
PnlInit ==
    /\ env \in {e \in Environments : e.faults}
    /\ NoSubscriptions
    /\ work \in {[fn |-> "pnl", pc |-> "loop", transactions |-> txs, i |-> 1,
                   token_positions |-> <<>>,
                   metrics |-> [total_value |-> Q(0, 1), realized_24h |-> 0,
                                realized_7d |-> 0, realized_30d |-> 0,
                                unrealized |-> 0]] :
                     txs \in UNION {[1..n -> PnlTxs] : n \in 0..MaxPnlTxs}
                               \cup DepositThenWithdraw}

\* pnl.rs:30-87  one pass of `for tx in transactions`.  The Decimal division
\* panics on a zero divisor.
PnlIteration ==
    /\ work.fn = "pnl" /\ work.pc = "loop"
    /\ work.i <= Len(work.transactions)
    /\ LET tx == work.transactions[work.i]
           m == work.token_positions
           Entry(f, k) == IF k \in DOMAIN f THEN f[k]
                          ELSE [amount |-> 0, cost_basis |-> Q(0, 1)]
           Plus(q, usd) == Q(q.n + usd * q.d, q.d)
           \* q * (1 - out / held), with held # 0
           Reduced(q, out, held) ==
               IF held > 0 THEN Q(q.n * (held - out), q.d * held)
               ELSE Q(q.n * (out - held), q.d * (0 - held))
           is_realized == tx.tx_type \in {"Swap", "Withdraw", "RemoveLiquidity"}
           Window(days, sum) ==
               IF is_realized /\ tx.block_time >= PnlNow - days
               THEN sum + tx.usd_value ELSE sum
           metrics == [work.metrics EXCEPT
                         !.realized_24h = Window(1, @),
                         !.realized_7d = Window(7, @),
                         !.realized_30d = Window(30, @)]
           next == [work EXCEPT !.i = @ + 1, !.metrics = metrics]
       IN work' =
            IF tx.tx_type \in {"Deposit", "AddLiquidity"}
            THEN LET position == Entry(m, tx.token_in)
                 IN [next EXCEPT !.token_positions =
                       (tx.token_in :>
                          [amount |-> position.amount + tx.amount_in,
                           cost_basis |-> Plus(position.cost_basis, tx.usd_value)])
                       @@ m]
            ELSE IF tx.tx_type \in {"Withdraw", "RemoveLiquidity"}
            THEN LET position == Entry(m, tx.token_out)
                     amount == position.amount - tx.amount_out
                 IN IF amount # 0 /\ amount + tx.amount_out = 0
                    THEN [next EXCEPT !.pc = "panicked"]
                    ELSE [next EXCEPT !.token_positions =
                            (tx.token_out :>
                               [amount |-> amount,
                                cost_basis |->
                                  IF amount # 0
                                  THEN Reduced(position.cost_basis, tx.amount_out,
                                               amount + tx.amount_out)
                                  ELSE position.cost_basis])
                            @@ m]
            ELSE IF tx.tx_type = "Swap"
            THEN LET paid == IF tx.token_in \in DOMAIN m
                             THEN (tx.token_in :>
                                     [m[tx.token_in] EXCEPT !.amount = @ - tx.amount_in])
                                  @@ m
                             ELSE m
                     output_position == Entry(paid, tx.token_out)
                 IN [next EXCEPT !.token_positions =
                       (tx.token_out :>
                          [amount |-> output_position.amount + tx.amount_out,
                           cost_basis |-> Plus(output_position.cost_basis,
                                               tx.usd_value)])
                       @@ paid]
            ELSE next
    /\ UNCHANGED engineVars

\* pnl.rs:89-98  total_value: the cost bases of the positions with a
\* positive amount
PnlReturn ==
    /\ work.fn = "pnl" /\ work.pc = "loop"
    /\ work.i > Len(work.transactions)
    /\ LET m == work.token_positions
           RECURSIVE Sum(_)
           Sum(keys) ==
               IF keys = {} THEN Q(0, 1)
               ELSE LET k == CHOOSE j \in keys : TRUE
                        rest == Sum(keys \ {k})
                    IN Q(m[k].cost_basis.n * rest.d + rest.n * m[k].cost_basis.d,
                         m[k].cost_basis.d * rest.d)
       IN work' = [work EXCEPT
                     !.pc = "done",
                     !.metrics.total_value =
                         Sum({k \in DOMAIN m : m[k].amount > 0})]
    /\ UNCHANGED engineVars

PnlNext == PnlIteration \/ PnlReturn

PnlSpec == PnlInit /\ [][PnlNext]_vars

\* ============================================================== conviction
\* cortex-core conviction.rs and the conviction operation of the MCP client
\* (cortex-unified-mcp defi.rs).  Titles, outcomes and symbols are sequences
\* of characters.  A strength or score is in millionths (0.925 is 925000);
\* USD amounts are whole numbers; an Option is a sequence of at most one
\* element.  A `let` of the code whose value is used more than once is bound
\* once, as the one element of a set.

\* conviction.rs:153-183  extract_market_asset: the first pattern of the
\* table that the lower-cased title contains
extract_market_asset(title, category) ==
    LET crypto_assets ==
            << <<<<"b", "i", "t", "c", "o", "i", "n">>, <<"B", "T", "C">>>>,
               <<<<"b", "t", "c">>, <<"B", "T", "C">>>>,
               <<<<"e", "t", "h", "e", "r", "e", "u", "m">>, <<"E", "T", "H">>>>,
               <<<<"e", "t", "h">>, <<"E", "T", "H">>>>,
               <<<<"s", "o", "l", "a", "n", "a">>, <<"S", "O", "L">>>>,
               <<<<"s", "o", "l", " ">>, <<"S", "O", "L">>>>,
               <<<<"$", "s", "o", "l">>, <<"S", "O", "L">>>> >>
        Asset(title_lower) ==
            LET hits == {i \in 1..Len(crypto_assets) :
                            contains(title_lower, crypto_assets[i][1])}
            IN IF hits # {}
               THEN <<crypto_assets[CHOOSE i \in hits : \A j \in hits : i <= j][2]>>
               ELSE IF /\ to_lowercase(category) = <<"c", "r", "y", "p", "t", "o">>
                       /\ \/ contains(title_lower, <<"p", "r", "i", "c", "e">>)
                          \/ contains(title_lower, <<"r", "e", "a", "c", "h">>)
               THEN <<<<"C", "R", "Y", "P", "T", "O">>>>
               ELSE <<>>
    IN CHOOSE asset \in {Asset(title_lower) : title_lower \in {to_lowercase(title)}} : TRUE

\* conviction.rs:186-206  is_position_relevant
is_position_relevant(position, asset) ==
    LET token_upper == to_uppercase(position.token_symbol)
        asset_upper == to_uppercase(asset)
    IN \/ token_upper = asset_upper
       \/ (token_upper # <<>> /\ token_upper[1] = "W" /\ Tail(token_upper) = asset_upper)
       \/ (contains(token_upper, asset_upper) /\ position.position_type = "LiquidityPool")

\* conviction.rs:58-150  analyze_bet_conviction.  defi_context and
\* prediction_context are kept as the values they are formatted from.
analyze_bet_conviction(bet, positions) ==
    LET RECURSIVE Sum(_, _)
        Sum(is, field) ==
            IF is = {} THEN 0
            ELSE LET i == CHOOSE j \in is : TRUE
                 IN positions[i][field] + Sum(is \ {i}, field)
        Relevant(asset) ==
            {i \in 1..Len(positions) : is_position_relevant(positions[i], asset[1])}
        Signal(market_asset, relevant_positions) ==
            LET total_exposure == Sum(relevant_positions, "usd_value")
                total_pnl == Sum(relevant_positions, "unrealized_pnl")
                outcome == to_uppercase(bet.outcome)
                is_bullish_bet ==
                    \/ outcome = <<"Y", "E", "S">>
                    \/ contains(outcome, <<"A", "B", "O", "V", "E">>)
                    \/ contains(outcome, <<"O", "V", "E", "R">>)
                    \/ contains(outcome, <<"U", "P">>)
                is_bullish_position == total_exposure > 0 /\ total_pnl >= 0
                \* bet_weight * 0.15 and position_weight * 0.15, in millionths
                bet_part == 150 * Min(bet.amount_usd, 1000)
                position_part == 15 * Min(total_exposure, 10000)
            IN IF market_asset = <<>> THEN <<>>
               ELSE IF relevant_positions = {} THEN <<>>
               ELSE <<[signal_type |->
                          IF is_bullish_bet # is_bullish_position THEN "Contradiction"
                          ELSE IF is_bullish_bet THEN "BullishAlignment"
                          ELSE "BearishAlignment",
                       strength |->
                          IF is_bullish_bet = is_bullish_position
                          THEN 700000 + bet_part + position_part ELSE 300000,
                       asset |-> market_asset[1],
                       positions |-> Cardinality(relevant_positions),
                       total_exposure |-> total_exposure, total_pnl |-> total_pnl,
                       outcome |-> bet.outcome, market_title |-> bet.market_title]>>
    IN CHOOSE signal \in
           UNION {{Signal(market_asset, relevant_positions) :
                     relevant_positions \in {IF market_asset = <<>> THEN {}
                                              ELSE Relevant(market_asset)}} :
                  market_asset \in {extract_market_asset(bet.market_title, bet.category)}} :
           TRUE

\* conviction.rs:15-55, 209-226  calculate_conviction with
\* calculate_confidence; the interpretation is kept as its first words
calculate_conviction(w) ==
    LET bets == w.prediction_bets
        RECURSIVE Signals(_)
        Signals(n) ==
            IF n = 0 THEN <<>>
            ELSE Signals(n - 1) \o analyze_bet_conviction(bets[n], w.defi_positions)
        Conviction(signals) ==
            LET RECURSIVE Total(_)
                Total(n) == IF n = 0 THEN 0 ELSE signals[n].strength + Total(n - 1)
                total_signal_strength == Total(Len(signals))
                conviction_score ==
                    IF signals = <<>> THEN Q(0, 1)
                    ELSE IF total_signal_strength > 1000000 * Len(signals) THEN Q(1000000, 1)
                    ELSE Q(total_signal_strength, Len(signals))
                confidence ==
                    IF Len(w.defi_positions) >= 3 /\ Len(bets) >= 2 /\ Len(signals) >= 2
                    THEN "High"
                    ELSE IF (Len(w.defi_positions) >= 1 \/ Len(bets) >= 1)
                            /\ Len(signals) >= 1
                    THEN "Medium"
                    ELSE "Low"
            IN IF w.defi_positions = <<>> /\ bets = <<>>
               THEN [ok |-> FALSE, error |-> "InsufficientData"]
               ELSE [ok |-> TRUE, wallet |-> w.address,
                     conviction_score |-> conviction_score, confidence |-> confidence,
                     signals |-> signals,
                     interpretation |-> IF signals = <<>>
                                        THEN "No cross-domain signals detected"
                                        ELSE "Wallet shows conviction"]
    IN CHOOSE conviction \in {Conviction(signals) : signals \in {Signals(Len(bets))}} : TRUE

ConvictionOrError(w) == calculate_conviction(w)

\* defi.rs:93-162  DefiClient::get_wallet_conviction with
\* conviction.rs:290-343 conviction_to_response: `w` is the Wallet entity built
\* from what was fetched, a failed fetch included (it gives no positions,
\* no bets)
get_wallet_conviction(w) ==
    LET RECURSIVE Sum(_, _)
        Sum(list, field) ==
            IF list = <<>> THEN 0 ELSE Head(list)[field] + Sum(Tail(list), field)
        Lower(name) == CASE name = "BullishAlignment" -> "bullishalignment"
                         [] name = "BearishAlignment" -> "bearishalignment"
                         [] name = "Contradiction" -> "contradiction"
                         [] name = "High" -> "high"
                         [] name = "Medium" -> "medium"
                         [] name = "Low" -> "low"
        Response(conviction) ==
           IF conviction.ok
           THEN [ok |-> TRUE, wallet |-> conviction.wallet,
                 conviction_score |-> conviction.conviction_score,
                 confidence |-> Lower(conviction.confidence),
                 signals_count |-> Len(conviction.signals),
                 signals |-> [i \in 1..Len(conviction.signals) |->
                                [signal_type |-> Lower(conviction.signals[i].signal_type),
                                 strength |-> conviction.signals[i].strength]],
                 interpretation |-> conviction.interpretation,
                 defi_total_value_usd |-> Sum(w.defi_positions, "usd_value"),
                 total_bet_usd |-> Sum(w.prediction_bets, "amount_usd")]
           ELSE [ok |-> TRUE, wallet |-> w.address,
                 conviction_score |-> Q(0, 1), confidence |-> "low",
                 signals_count |-> 0, signals |-> <<>>,
                 interpretation |-> "Unable to calculate conviction",
                 defi_total_value_usd |-> w.total_value_usd,
                 total_bet_usd |-> 0]
    IN CHOOSE response \in {Response(conviction) : conviction \in {calculate_conviction(w)}} : TRUE

\* the longest list of positions and of bets of a wallet tried
MaxHoldings == 2

\* the wallets tried: any list of up to MaxHoldings of the positions and any
\* list of up to MaxHoldings of the bets
ConvictionWallets ==
    LET Position(symbol, type, usd, pnl) ==
            [token_symbol |-> symbol, position_type |-> type, usd_value |-> usd,
             unrealized_pnl |-> pnl]
        Bet(title, category, outcome, usd) ==
            [market_title |-> title, category |-> category, outcome |-> outcome,
             amount_usd |-> usd]
        Positions ==
            { Position(<<"S", "O", "L">>, "Spot", 15000, 5000),
              Position(<<"e", "t", "h">>, "Lending", 8000, 0 - 100),
              Position(<<"W", "E", "T", "H">>, "Spot", 3000, 0),
              Position(<<"S", "O", "L", "-", "U", "S", "D", "C">>, "LiquidityPool", 2000, 10),
              Position(<<"E", "T", "H">>, "Borrowing", 0 - 200000, 0) }
        Bets ==
            { Bet(<<"W", "i", "l", "l", " ", "S", "O", "L", " ", "f", "l", "i", "p", " ", "E", "T", "H", "?">>, <<"c", "r", "y", "p", "t", "o">>, <<"Y", "E", "S">>, 500),
              Bet(<<"S", "O", "L", " ", "p", "r", "i", "c", "e", " ", "t", "o", " ", "r", "e", "a", "c", "h", " ", "$", "3", "0", "0">>, <<"C", "r", "y", "p", "t", "o">>, <<"Y", "e", "s">>, 500),
              Bet(<<"E", "T", "H", " ", "p", "r", "i", "c", "e", " ", "a", "b", "o", "v", "e", " ", "$", "5", "0", "0", "0">>, <<"c", "r", "y", "p", "t", "o">>, <<"N", "o">>, 1000),
              Bet(<<"E", "T", "H", " ", "p", "r", "i", "c", "e", " ", "b", "y", " ", "M", "a", "r", "c", "h">>, <<"c", "r", "y", "p", "t", "o">>, <<"H", "i", "g", "h", "e", "r">>, 200),
              Bet(<<"W", "i", "l", "l", " ", "i", "t", " ", "r", "e", "a", "c", "h", " ", "1", "0", "?">>, <<"c", "r", "y", "p", "t", "o">>, <<"A", "b", "o", "v", "e", " ", "1", "0">>, 2000),
              Bet(<<"R", "a", "n", "d", "o", "m", " ", "m", "a", "r", "k", "e", "t">>, <<"p", "o", "l", "i", "t", "i", "c", "s">>, <<"Y", "E", "S">>, 100) }
    IN [address : {"bettor"}, total_value_usd : {0},
        defi_positions : UNION {[1..n -> Positions] : n \in 0..MaxHoldings},
        prediction_bets : UNION {[1..n -> Bets] : n \in 0..MaxHoldings}]

ConvictionInit ==
    /\ env \in {e \in Environments : e.faults}
    /\ NoSubscriptions
    /\ work \in {[fn |-> "conviction", pc |-> "call", wallet |-> w,
                   conviction |-> [ok |-> FALSE, error |-> "none"],
                   response |-> [ok |-> FALSE]] : w \in ConvictionWallets}

\* defi.rs:134  calculate_conviction(&wallet)
ConvictionCalculate ==
    /\ work.fn = "conviction" /\ work.pc = "call"
    /\ work' = [work EXCEPT !.pc = "calculated",
                            !.conviction = calculate_conviction(work.wallet)]
    /\ UNCHANGED engineVars

\* defi.rs:134-161  the response returned to the caller
ConvictionRespond ==
    /\ work.fn = "conviction" /\ work.pc = "calculated"
    /\ work' = [work EXCEPT !.pc = "returned",
                            !.response = get_wallet_conviction(work.wallet)]
    /\ UNCHANGED engineVars

ConvictionNext == ConvictionCalculate \/ ConvictionRespond

ConvictionSpec == ConvictionInit /\ [][ConvictionNext]_vars

\* ---------------------------------------------------------------- detect_informed_traders
\* defi.rs:266  bettors.iter().take(50)
\* the longest list of bettors a market hands out in a run
MaxBettors == 51

AnalyzedAll == MaxBettors

\* defi.rs:266  bettors.iter().take(50)
AnalyzedLimit == 50

\* defi.rs:216-223  the arguments and what get_market_bettors and the fetches
\* of each bettor's wallet return: a failed call, or a list of bettors, each
\* with the Wallet entity get_wallet_conviction builds for it (defi.rs:103-131,
\* 166-214): an EVM address has bets and no positions, a Solana address has
\* positions and, when CORTEX_DEMO_MODE is set, the bets of
\* demo_prediction_bets (defi.rs:438-470)
InformedInit ==
    LET Position(symbol, type, usd, pnl) ==
            [token_symbol |-> symbol, position_type |-> type, usd_value |-> usd,
             unrealized_pnl |-> pnl]
        Bet(title, outcome, usd) ==
            [market_title |-> title, category |-> <<"c", "r", "y", "p", "t", "o">>,
             outcome |-> outcome, amount_usd |-> usd]
        Wallet(address, positions, bets) ==
            [address |-> address, total_value_usd |-> 0,
             defi_positions |-> positions, prediction_bets |-> bets]
        demo_prediction_bets ==
            <<Bet(<<"W", "i", "l", "l", " ", "E", "T", "H", " ", "b", "e", " ", "a", "b", "o", "v", "e", " ", "$", "5", ",", "0", "0", "0", " ", "b", "y", " ", "M", "a", "r", "c", "h", " ", "2", "0", "2", "6", "?">>, <<"Y", "E", "S">>, 5000),
              Bet(<<"W", "i", "l", "l", " ", "S", "o", "l", "a", "n", "a", " ", "b", "e", " ", "a", "b", "o", "v", "e", " ", "$", "2", "0", "0", " ", "b", "y", " ", "e", "n", "d", " ", "o", "f", " ", "F", "e", "b", "r", "u", "a", "r", "y", " ", "2", "0", "2", "6", "?">>, <<"Y", "E", "S">>, 3000)>>
        Bettors(demo) ==
            LET bets == IF demo THEN demo_prediction_bets ELSE <<>>
            IN { Wallet("0xevm", <<>>, <<Bet(<<"W", "i", "l", "l", " ", "S", "o", "l", "a", "n", "a", " ", "b", "e", " ", "a", "b", "o", "v", "e", " ", "$", "2", "0", "0", " ", "b", "y", " ", "e", "n", "d", " ", "o", "f", " ", "F", "e", "b", "r", "u", "a", "r", "y", " ", "2", "0", "2", "6", "?">>, <<"N", "o">>, 1000)>>),
                 Wallet("winning", <<Position(<<"S", "O", "L">>, "Spot", 15000, 5000)>>, bets),
                 Wallet("losing", <<Position(<<"S", "O", "L">>, "Spot", 15000, 0 - 100)>>, bets),
                 Wallet("pool", <<Position(<<"S", "O", "L", "-", "U", "S", "D", "C">>, "LiquidityPool", 2000, 10)>>, bets),
                 Wallet("unknown", <<>>, bets) }
        Cycles(demo) == UNION {[1..n -> Bettors(demo)] : n \in 1..2}
        Lengths == 0..6 \cup {MaxBettors - 1, MaxBettors}
    IN /\ env \in {e \in Environments : e.faults}
       /\ NoSubscriptions
       /\ \E demo \in BOOLEAN :
          work \in {[fn |-> "informed", pc |-> "loop", fetched |-> fetched,
                      bettors |-> [i \in 1..n |-> cycle[((i - 1) % Len(cycle)) + 1]],
                      min_conviction |-> min_conviction, analyzed |-> 0,
                      informed_traders |-> <<>>,
                      total_bullish_usd |-> 0, total_bearish_usd |-> 0,
                      response |-> [none |-> TRUE]] :
                     fetched \in BOOLEAN, cycle \in Cycles(demo), n \in Lengths,
                     min_conviction \in {0, 300000, 745000, 1000000}}

\* defi.rs:266-293  one pass of the loop over the first bettors: the
\* bettor's conviction, and the bettor kept when the score reaches the
\* threshold (scores in millionths)
InformedAnalyze ==
    /\ work.fn = "informed" /\ work.pc = "loop"
    /\ work.fetched
    /\ work.analyzed < Min(Len(work.bettors), AnalyzedLimit)
    /\ \E c \in {get_wallet_conviction(work.bettors[work.analyzed + 1])} :
       LET bettor == work.bettors[work.analyzed + 1]
           is_bullish == \E i \in 1..Len(c.signals) :
                            c.signals[i].signal_type = "bullishalignment"
           kept == c.ok /\ c.conviction_score.n
                              >= work.min_conviction * c.conviction_score.d
       IN work' = [work EXCEPT
              !.analyzed = @ + 1,
              !.total_bullish_usd =
                  IF kept /\ is_bullish THEN @ + c.defi_total_value_usd ELSE @,
              !.total_bearish_usd =
                  IF kept /\ ~is_bullish THEN @ + c.defi_total_value_usd ELSE @,
              !.informed_traders =
                  IF kept
                  THEN Append(@, [position |-> work.analyzed + 1,
                                  address |-> bettor.address,
                                  conviction_score |-> c.conviction_score,
                                  defi_exposure_usd |-> c.defi_total_value_usd,
                                  direction |-> IF is_bullish THEN "bullish"
                                                ELSE "bearish"])
                  ELSE @]
    /\ UNCHANGED engineVars

\* defi.rs:223-259, 296-330  the three returns: the bettors could not be
\* fetched, the market has none, and the aggregate over the bettors analysed
InformedReturn ==
    /\ work.fn = "informed" /\ work.pc = "loop"
    /\ ~work.fetched \/ work.analyzed >= Min(Len(work.bettors), AnalyzedLimit)
    /\ LET total_informed_usd == work.total_bullish_usd + work.total_bearish_usd
           signal ==
               IF total_informed_usd > 0
               THEN IF work.total_bullish_usd > work.total_bearish_usd
                    THEN [direction |-> "bullish",
                          alignment_pct |-> Q(work.total_bullish_usd * 100, total_informed_usd)]
                    ELSE [direction |-> "bearish",
                          alignment_pct |-> Q(work.total_bearish_usd * 100, total_informed_usd)]
               ELSE [direction |-> "neutral", alignment_pct |-> Q(0, 1)]
           confidence == IF Len(work.informed_traders) >= 5 THEN "high"
                         ELSE IF Len(work.informed_traders) >= 2 THEN "medium"
                         ELSE "low"
           Early(direction) ==
               [informed_traders_count |-> 0, direction |-> direction,
                alignment_pct |-> Q(0, 1), total_informed_usd |-> 0,
                confidence |-> "low", traders |-> <<>>, bettors_analyzed |-> 0]
       IN work' = [work EXCEPT
              !.pc = "returned",
              !.response =
                  IF ~work.fetched THEN Early("insufficient_data")
                  ELSE IF work.bettors = <<>> THEN Early("no_bettors")
                  ELSE [informed_traders_count |-> Len(work.informed_traders),
                        direction |-> signal.direction,
                        alignment_pct |-> signal.alignment_pct,
                        total_informed_usd |-> total_informed_usd,
                        confidence |-> confidence,
                        traders |-> work.informed_traders,
                        bettors_analyzed |-> Min(Len(work.bettors), 50)]]
    /\ UNCHANGED engineVars

InformedNext == InformedAnalyze \/ InformedReturn

InformedSpec == InformedInit /\ [][InformedNext]_vars

\* ================================================= index_wallet_snapshot
\* LysLabsClient::stream_wallet_transactions as index_wallet_snapshot calls
\* it: the connection, the spawned task that reads the socket and sends the
\* records of the wallet into the channel, and the collection loop.  Time is
\* counted in seconds since the call.

\* mod.rs:377  const STREAM_TIMEOUT_SECS: u64 = 15
STREAM_TIMEOUT_SECS == 15
\* mod.rs:378  const MAX_TRANSACTIONS: usize = 1000
MAX_TRANSACTIONS == 1000

\* records sent by the reading task that the loop has not taken yet (the
\* channel holds up to 1000)
MaxBuffered == 2
\* seconds the connection and the subscribe frame may take
MaxConnectSecs == 1

LimitExceeded(len) == len > MAX_TRANSACTIONS

\* lyslabs.rs:238  transactions.len() >= collected_limit
LimitReached(len) == len >= MAX_TRANSACTIONS

SnapshotInit ==
    /\ env \in {e \in Environments : e.faults}
    /\ NoSubscriptions
    /\ work = [fn |-> "snapshot", pc |-> "connect", now |-> 0, deadline |-> 0,
               task |-> "none", buffered |-> 0, matched |-> 0, transactions |-> 0,
               result |-> "none"]

\* lyslabs.rs:76-107, 220-222  connect_async and the subscribe frame: either
\* fails the call; after them the channel, the task and the deadline
SnapshotConnect ==
    /\ work.fn = "snapshot" /\ work.pc = "connect"
    /\ \/ work' = [work EXCEPT !.pc = "returned", !.result = "Err"]
       \/ work' = [work EXCEPT !.pc = "collect", !.task = "reading",
                               !.deadline = work.now + STREAM_TIMEOUT_SECS]
    /\ UNCHANGED engineVars

\* the clock
SnapshotTick ==
    /\ work.fn = "snapshot" /\ work.pc # "returned"
    /\ work.now < (IF work.pc = "connect" THEN MaxConnectSecs ELSE work.deadline)
    /\ work' = [work EXCEPT !.now = @ + 1]
    /\ UNCHANGED engineVars

\* lyslabs.rs:112-217  the spawned task: a message with a record of the
\* wallet is sent into the channel, any other message is skipped, and a Close
\* frame, an error or the end of the stream ends the task, which drops the
\* sender
SnapshotRead ==
    /\ work.fn = "snapshot" /\ work.pc = "collect" /\ work.task = "reading"
    /\ \/ /\ work.buffered < MaxBuffered
          /\ work' = [work EXCEPT !.buffered = @ + 1, !.matched = 1]
       \/ work' = [work EXCEPT !.task = "ended"]
    /\ UNCHANGED engineVars

\* lyslabs.rs:226-270  one pass of the collection loop: a record from the
\* channel, or the deadline; then abort and Ok(transactions)
SnapshotCollect ==
    /\ work.fn = "snapshot" /\ work.pc = "collect"
    /\ \/ /\ work.buffered > 0
          /\ work' = [work EXCEPT
                 !.buffered = @ - 1,
                 !.transactions = @ + 1,
                 !.pc = IF LimitReached(work.transactions + 1) THEN "returned" ELSE @,
                 !.task = IF LimitReached(work.transactions + 1) THEN "aborted" ELSE @,
                 !.result = IF LimitReached(work.transactions + 1) THEN "Ok" ELSE @]
       \/ /\ work.now >= work.deadline
          /\ work' = [work EXCEPT !.pc = "returned", !.task = "aborted",
                                  !.result = "Ok"]
    /\ UNCHANGED engineVars

SnapshotNext == SnapshotConnect \/ SnapshotTick \/ SnapshotRead \/ SnapshotCollect

\* the call is polled until it returns and time passes
SnapshotSpec ==
    /\ SnapshotInit /\ [][SnapshotNext]_vars
    /\ WF_vars(SnapshotConnect) /\ WF_vars(SnapshotTick) /\ WF_vars(SnapshotCollect)

\* ====================================================== on-chain registry
\* contracts/solder-dao lib.rs: the attestations of one memory entry, one
\* account per attester (the PDA of Attest is seeded by memory and attester),
\* and the instructions attest and resolve_dispute.  An instruction that
\* fails leaves every account as it was.

\* the accounts that may sign an instruction
Signers == {"attester", "agent", "oracle"}

NoAttestation == [exists |-> FALSE]

ResolveChecksTypeOnly(attestation) ==
    IF attestation.attestation_type # "Disputed" THEN "NotDisputed" ELSE "Ok"

\* lib.rs:219-226  the two require! of resolve_dispute
ResolveChecks(attestation) ==
    IF attestation.attestation_type # "Disputed" THEN "NotDisputed"
    ELSE IF attestation.status # "Active" THEN "AlreadyResolved"
    ELSE "Ok"

RegistryInit ==
    /\ env \in {e \in Environments : e.faults}
    /\ NoSubscriptions
    /\ work = [fn |-> "registry",
               attestation |-> [a \in Signers |-> NoAttestation],
               memory |-> [attestation_count |-> 0, dispute_count |-> 0],
               last |-> [ix |-> "none", signer |-> "none", account |-> "none",
                         arg |-> "none", result |-> "none"]]

\* lib.rs:158-207, 500-515  attest: the account is created (init), so a
\* second attestation of the memory by the same attester fails
attest ==
    /\ work.fn = "registry"
    /\ \E attester \in Signers, attestation_type \in {"Witnessed", "Verified", "Disputed"},
          stake_amount \in {0, 1} :
          IF work.attestation[attester] # NoAttestation
          THEN work' = [work EXCEPT
                   !.last = [ix |-> "attest", signer |-> attester, account |-> attester,
                             arg |-> attestation_type, result |-> "AccountInUse"]]
          ELSE work' = [work EXCEPT
                   !.attestation[attester] =
                       [exists |-> TRUE, attester |-> attester,
                        attestation_type |-> attestation_type,
                        stake |-> stake_amount, status |-> "Active"],
                   !.memory.attestation_count =
                       IF attestation_type # "Disputed" THEN @ + 1 ELSE @,
                   !.memory.dispute_count =
                       IF attestation_type = "Disputed" THEN @ + 1 ELSE @,
                   !.last = [ix |-> "attest", signer |-> attester, account |-> attester,
                             arg |-> attestation_type, result |-> "Ok"]]
    /\ UNCHANGED engineVars

\* lib.rs:213-244, 517-524  resolve_dispute: any account may sign as
\* `resolver`; the attestation account must exist
resolve_dispute ==
    /\ work.fn = "registry"
    /\ \E resolver \in Signers, account \in Signers,
          resolution \in {"AttesterCorrect", "AttesterIncorrect", "Inconclusive"} :
          LET attestation == work.attestation[account]
              result == IF attestation = NoAttestation THEN "AccountNotInitialized"
                        ELSE ResolveChecks(attestation)
          IN work' = [work EXCEPT
                 !.attestation[account] =
                     IF result # "Ok" THEN @
                     ELSE [@ EXCEPT !.status =
                             CASE resolution = "AttesterCorrect" -> "Validated"
                               [] resolution = "AttesterIncorrect" -> "Slashed"
                               [] resolution = "Inconclusive" -> "Withdrawn"],
                 !.last = [ix |-> "resolve_dispute", signer |-> resolver,
                           account |-> account, arg |-> resolution,
                           result |-> result]]
    /\ UNCHANGED engineVars

RegistryNext == attest \/ resolve_dispute

RegistrySpec == RegistryInit /\ [][RegistryNext]_vars

\* ======================================================= prediction cache
\* cortex-prediction-mcp: the tools of tools.rs in front of QueryCache
\* (cache.rs) and the query engine (db/queries.rs).  work.cache is the moka
\* cache, a function from CacheKey to CacheValue; work.last is the answer of
\* the last call, with `hit` set where the code logs "Cache hit".

\* the slugs tried: a market with data, a market without, two bad formats
Slugs ==
    { <<"b", "t", "c">>, <<"e", "t", "h", "-", "2">>, <<"B", "T", "C">>, <<>> }

\* the intervals tried
Intervals == {"1m", "30m", "1d", "7d", "2h"}

\* the thresholds tried, in standard deviations
Thresholds == {0, 1, 3}

\* the z-scores of the price rows of a slug, newest first
MarketZScores(slug) == IF slug = <<"b", "t", "c">> THEN <<4, 0 - 2>> ELSE <<>>

\* error.rs:33-50  validate_slug
validate_slug(slug) ==
    /\ slug # <<>>
    /\ \A i \in 1..Len(slug) :
          \/ IsIn(LowerLetters, slug[i])
          \/ slug[i] \in {"0", "1", "2", "3", "4", "5", "6", "7", "8", "9"}
          \/ slug[i] = "-"

\* error.rs:53-58  validate_interval
validate_interval(interval) ==
    interval \in {"1m", "5m", "15m", "30m", "1h", "4h", "24h", "1d", "7d"}

\* db/queries.rs:219-264  QueryEngine::detect_anomalies: the rows with
\* abs(z_score) > threshold
QueryEngine_detect_anomalies(slug, threshold) ==
    SelectSeq(MarketZScores(slug),
              LAMBDA z : (IF z < 0 THEN 0 - z ELSE z) > threshold)

\* tools.rs:25-40, cache.rs:33-40  a new server: an empty cache
CacheInit ==
    /\ env \in {e \in Environments : e.faults}
    /\ NoSubscriptions
    /\ work = [fn |-> "cache", cache |-> <<>>,
               last |-> [tool |-> "none", slug |-> <<>>, arg |-> "", ok |-> TRUE,
                         hit |-> FALSE, data |-> <<>>]]

\* tools.rs:399-430  detect_anomalies, cache.rs:122-143
detect_anomalies ==
    /\ work.fn = "cache"
    /\ \E slug \in Slugs, threshold \in Thresholds :
         LET key == <<"Anomalies", slug>>
             Answer(ok, hit, data) ==
                 [tool |-> "detect_anomalies", slug |-> slug, arg |-> threshold,
                  ok |-> ok, hit |-> hit, data |-> data]
         IN IF ~validate_slug(slug) \/ threshold <= 0
            THEN work' = [work EXCEPT !.last = Answer(FALSE, FALSE, <<>>)]
            ELSE IF key \in DOMAIN work.cache
            THEN work' = [work EXCEPT !.last = Answer(TRUE, TRUE, work.cache[key])]
            ELSE \E anomalies \in {QueryEngine_detect_anomalies(slug, threshold)} :
                   work' = [work EXCEPT
                              !.cache = (key :> anomalies) @@ work.cache,
                              !.last = Answer(TRUE, FALSE, anomalies)]
    /\ UNCHANGED engineVars

\* tools.rs:192-222  get_market_trend, cache.rs:43-74, db/queries.rs:46-62
get_market_trend ==
    /\ work.fn = "cache"
    /\ \E slug \in Slugs, interval \in Intervals :
         LET key == <<"MarketTrend", slug, interval>>
             Answer(ok, hit, data) ==
                 [tool |-> "get_market_trend", slug |-> slug, arg |-> interval,
                  ok |-> ok, hit |-> hit, data |-> data]
             ohlcv_data == IF MarketZScores(slug) = <<>> THEN <<>>
                           ELSE <<interval>>
         IN IF ~validate_slug(slug) \/ ~validate_interval(interval)
            THEN work' = [work EXCEPT !.last = Answer(FALSE, FALSE, <<>>)]
            ELSE IF key \in DOMAIN work.cache
            THEN work' = [work EXCEPT !.last = Answer(TRUE, TRUE, work.cache[key])]
            ELSE IF ohlcv_data = <<>>
            THEN work' = [work EXCEPT !.last = Answer(FALSE, FALSE, <<>>)]
            ELSE work' = [work EXCEPT
                            !.cache = (key :> ohlcv_data) @@ work.cache,
                            !.last = Answer(TRUE, FALSE, ohlcv_data)]
    /\ UNCHANGED engineVars

\* tools.rs:294-318  get_volume_profile, cache.rs:77-97
get_volume_profile ==
    /\ work.fn = "cache"
    /\ \E slug \in Slugs :
         LET key == <<"VolumeProfile", slug>>
             Answer(ok, hit, data) ==
                 [tool |-> "get_volume_profile", slug |-> slug, arg |-> "",
                  ok |-> ok, hit |-> hit, data |-> data]
             profile == IF MarketZScores(slug) = <<>> THEN <<>> ELSE <<slug>>
         IN IF ~validate_slug(slug)
            THEN work' = [work EXCEPT !.last = Answer(FALSE, FALSE, <<>>)]
            ELSE IF key \in DOMAIN work.cache
            THEN work' = [work EXCEPT !.last = Answer(TRUE, TRUE, work.cache[key])]
            ELSE IF profile = <<>>
            THEN work' = [work EXCEPT !.last = Answer(FALSE, FALSE, <<>>)]
            ELSE work' = [work EXCEPT
                            !.cache = (key :> profile) @@ work.cache,
                            !.last = Answer(TRUE, FALSE, profile)]
    /\ UNCHANGED engineVars

\* cache.rs:146-169  invalidate_slug
invalidate_slug ==
    /\ work.fn = "cache"
    /\ \E slug \in Slugs :
         LET invalidated ==
                 {<<"VolumeProfile", slug>>, <<"Anomalies", slug>>}
                 \cup {<<"MarketTrend", slug, interval>> :
                         interval \in {"1m", "5m", "15m", "1h", "4h", "24h"}}
         IN work' = [work EXCEPT
                       !.cache = [k \in DOMAIN work.cache \ invalidated |->
                                    work.cache[k]],
                       !.last = [tool |-> "invalidate_slug", slug |-> slug,
                                 arg |-> "", ok |-> TRUE, hit |-> FALSE,
                                 data |-> <<>>]]
    /\ UNCHANGED engineVars

\* cache.rs:34-37  time_to_live / max_capacity: moka drops an entry
CacheExpire ==
    /\ work.fn = "cache"
    /\ \E key \in DOMAIN work.cache :
         work' = [work EXCEPT
                    !.cache = [k \in DOMAIN work.cache \ {key} |-> work.cache[k]]]
    /\ UNCHANGED engineVars

CacheNext ==
    \/ detect_anomalies
    \/ get_market_trend
    \/ get_volume_profile
    \/ invalidate_slug
    \/ CacheExpire

CacheSpec == CacheInit /\ [][CacheNext]_vars

\* ================================================================ claims
Created(s) == s <= nsubs

\* the task states in which a task has ended
ProcTerminal == {"ended", "panicked"}
HistTerminal == {"done", "failed"}
LiveTerminal == {"cancelled", "exhausted", "closed"}

\* the instances of a wallet whose token has not been cancelled
LiveInstances(w) == {s \in SubIds : Created(s) /\ wallet[s] = w /\ ~cancelled[s]}

\* ---------------------------------------------------------------- C1
C1_MapInv ==
    \A w \in Wallets :
        /\ Cardinality({e \in subscriptions : e[1] = w}) <= 1
        /\ Cardinality(LiveInstances(w)) <= 1
        /\ \A s \in LiveInstances(w) : <<w, s>> \in subscriptions

C1_StartStep ==
    \A c \in Callers, w \in Wallets :
        /\ (StartCall(c, w) /\ ContainsKey(w)) =>
              /\ ret' = Returned("start", w, "AlreadyRunning")
              /\ UNCHANGED <<subscriptions, nsubs, call, subVars, procVars, prodVars>>
        /\ (StartSpawn(c) /\ call[c].w = w) =>
              /\ ret' = Returned("start", w, "Started")
              /\ cancelled[call[c].sid] \/ LiveInstances(w) = {call[c].sid}

\* C1: for every interleaving of start and stop calls the subscription map
\* holds at most one entry per wallet and at most one subscription per wallet
\* has an uncancelled token, namely the one in the map; a start(W) issued
\* while W is in the map returns AlreadyRunning and creates no channel and
\* no task; a start(W) that returns Started returns it for the only live
\* subscription of W (or for one that a stop has cancelled meanwhile), so
\* that of several concurrent start(W) calls on an unsubscribed wallet only
\* one returns Started.
C1_OneSubscriptionPerWallet == []C1_MapInv /\ [][C1_StartStep]_vars

\* two start(W) calls overlap: one has registered W and is still spawning
\* its tasks, the other has returned AlreadyRunning
C1_Witness ==
    \E c \in Callers, w \in Wallets :
        /\ call[c].pc = "start_spawn"
        /\ call[c].w = w
        /\ ret = Returned("start", w, "AlreadyRunning")

\* ---------------------------------------------------------------- C2
\* C2: when the live stream of a subscription has ended as Exhausted, the
\* subscription is no longer in the map (is_subscribed is false and list()
\* does not report it).
C2_ExhaustedIsRemoved ==
    \A s \in SubIds :
        live[s].pc = "exhausted" =>
            /\ <<wallet[s], s>> \notin subscriptions
            /\ ~is_subscribed(wallet[s])
            /\ \A e \in list_subscriptions : e.wallet # wallet[s]

\* ---------------------------------------------------------------- C3
\* the task group of s has ended and holds nothing any more
Released(s) ==
    /\ proc[s] \in ProcTerminal
    /\ hist[s].pc \in HistTerminal
    /\ live[s].pc \in LiveTerminal
    /\ ~socket[s]
    /\ senders[s] = {}
    /\ ~rx[s]

\* C3: once stop(W) has cancelled a subscription, under fair scheduling and
\* without any further API call the processor, the history producer and the
\* live producer of that subscription all reach a terminal state, the
\* WebSocket is closed, every channel sender is dropped and the receiver is
\* dropped.
C3_StopReleasesTaskGroup == \A s \in SubIds : cancelled[s] ~> Released(s)

\* a stopped subscription whose three tasks have ended normally: the live
\* producer by observing the token, the history producer after its last
\* record, the processor when the channel closed
C3_Witness ==
    \E s \in SubIds :
        /\ cancelled[s] /\ Released(s)
        /\ proc[s] = "ended" /\ hist[s].pc = "done" /\ live[s].pc = "cancelled"
        /\ received[s].l >= 1

\* ---------------------------------------------------------------- C4
C4_QuietStep ==
    \A s \in SubIds :
        cancelled[s] =>
            /\ hist'[s].fetched = hist[s].fetched
            /\ hist'[s].sent = hist[s].sent
            /\ live'[s].matched = live[s].matched

\* C4: once the token of a subscription is cancelled, its history producer
\* fetches no further page and sends no further history record, and its
\* live producer sends no further record.
C4_ProducersStopAtCancel == [][C4_QuietStep]_vars

\* ---------------------------------------------------------------- C5
\* the records of one producer that are buffered in the channel
Buffered(s, kind) == SelectSeq(chan[s], LAMBDA r : r[1] = kind)
Numbers(q) == {q[i][2] : i \in 1..Len(q)}

C5_ChannelInv ==
    \A s \in SubIds :
        /\ Len(chan[s]) <= ChannelCapacity
        /\ proc[s] \in {"recv", "ended"} =>
              /\ Numbers(Buffered(s, "h")) = (received[s].h + 1)..hist[s].sent
              /\ Numbers(Buffered(s, "l")) = (received[s].l + 1)..live[s].matched
              /\ Len(chan[s]) = (hist[s].sent - received[s].h)
                                 + (live[s].matched - received[s].l)
        /\ proc[s] = "ended" =>
              /\ received[s].h = hist[s].sent
              /\ received[s].l = live[s].matched

C5_FullStep ==
    \A s \in SubIds :
        (rx[s] /\ Len(chan[s]) = ChannelCapacity) =>
            /\ hist'[s].sent = hist[s].sent
            /\ live'[s].matched = live[s].matched
            /\ (hist[s].pc = "send" /\ hist[s].sent < hist[s].fetched)
                  => hist'[s] = hist[s]
            /\ live[s].pc = "sending" => live'[s] = live[s]

\* C5: the channel of a subscription never holds more than its capacity; a
\* producer whose send finds the channel full stays in its send and sends
\* nothing until the processor has freed a slot; and while the processor is
\* alive every record a producer has sent is either buffered or has been
\* received, exactly once (when the processor has ended normally, all of
\* them have been received).
C5_BoundedLosslessChannel == []C5_ChannelInv /\ [][C5_FullStep]_vars

\* the channel is full, the processor has already taken a record out of it
\* and the live producer is waiting in a send
C5_Witness ==
    \E s \in SubIds :
        /\ Len(chan[s]) = ChannelCapacity /\ rx[s]
        /\ received[s].h + received[s].l >= 1
        /\ live[s].pc = "sending"

\* ---------------------------------------------------------------- C6
C6_OrderInv ==
    \A s \in SubIds :
        /\ Buffered(s, "l") = [i \in 1..(live[s].matched - received[s].l) |->
                                  <<"l", received[s].l + i>>]
        /\ received[s].lastL = IF received[s].l = 0 THEN NoRecord
                                ELSE <<"l", received[s].l>>

C6_RecvStep ==
    \A s \in SubIds :
        received'[s].l # received[s].l =>
            /\ received'[s].l = received[s].l + 1
            /\ received'[s].lastL = <<"l", received[s].l + 1>>
            /\ received'[s].lastL[2] <= live[s].matched

\* C6: the live records of a subscription are numbered in the order in which
\* the live producer matched them; the live records buffered in the channel
\* are always the matched ones not yet received, in that order, and the
\* n-th live record the processor receives is the n-th one matched, however
\* many reconnects happen and however history records are interleaved.
C6_LiveOrderPreserved == []C6_OrderInv /\ [][C6_RecvStep]_vars

\* the processor has received two live records and a history record, and
\* the stream has lost its connection since
C6_Witness ==
    \E s \in SubIds :
        /\ received[s].l = 2 /\ received[s].h = 1
        /\ received[s].lastL = <<"l", 2>>
        /\ live[s].pc = "backoff"

\* ---------------------------------------------------------------- C7
\* C7: when the processor of a subscription has exited, the channel is empty
\* and every producer has released its sender: no buffered record is left
\* unprocessed.
C7_ProcessorExitsOnClosedEmptyChannel ==
    \A s \in SubIds :
        proc[s] \in ProcTerminal => chan[s] = <<>> /\ senders[s] = {}

\* ---------------------------------------------------------------- C8
C8_StoppedInv ==
    /\ \A s \in SubIds : cancelled[s] => <<wallet[s], s>> \notin subscriptions
    /\ \A w \in Wallets :
          ret = Returned("stop", w, "Stopped") =>
              \/ /\ ~is_subscribed(w)
                 /\ \A e \in list_subscriptions : e.wallet # w
              \/ \E c \in Callers : /\ call[c].pc = "start_spawn"
                                    /\ call[c].w = w
                                    /\ subscriptions \cap {x \in subscriptions : x[1] = w}
                                         = {<<w, call[c].sid>>}

C8_RestartStep ==
    \A c \in Callers, w \in Wallets :
        (StartCall(c, w) /\ \A s \in SubIds : (Created(s) /\ wallet[s] = w) => cancelled[s])
            => /\ call'[c].pc = "start_insert"
               /\ UNCHANGED ret

\* C8: a stopped subscription is never in the map; once stop(W) has returned
\* Stopped, W is absent from the map (is_subscribed(W) is false, list() has
\* no entry for W) until a later start(W) registers it again; and a start(W)
\* issued when every earlier subscription of W has been stopped goes on to
\* register W (and so returns Started), whatever the old tasks are doing.
C8_StopThenStart == []C8_StoppedInv /\ [][C8_RestartStep]_vars

\* W was stopped and started again and the restart returned Started while a
\* task of the stopped subscription is still running
C8_Witness ==
    \E s1, s2 \in SubIds :
        /\ s1 # s2 /\ Created(s1) /\ Created(s2)
        /\ wallet[s1] = wallet[s2]
        /\ cancelled[s1] /\ ~cancelled[s2]
        /\ ret = Returned("start", wallet[s2], "Started")
        /\ (proc[s1] \notin ProcTerminal \/ live[s1].pc \notin LiveTerminal)

\* ---------------------------------------------------------------- C9
C9_StopStep ==
    \A c \in Callers, w \in Wallets :
        Stop(c, w) =>
            /\ ~is_subscribed(w)'
            /\ {e \in subscriptions' : e[1] # w} = {e \in subscriptions : e[1] # w}
            /\ \A s \in SubIds : cancelled'[s] # cancelled[s] => wallet[s] = w
            /\ ~is_subscribed(w) =>
                  /\ ret' = Returned("stop", w, "NotRunning")
                  /\ UNCHANGED <<env, subscriptions, lock, call, nsubs, subVars,
                                 procVars, prodVars>>

\* C9: stop(W) leaves W absent from the map and touches neither the entry
\* nor the token of any other wallet; a stop(W) issued while W is absent
\* (in particular the second of two stops) returns NotRunning and changes
\* nothing but the returned value.
C9_StopIdempotent == [][C9_StopStep]_vars

\* the second stop(W1) has returned NotRunning after the first one stopped
\* W1, while another wallet is still subscribed
C9_Witness ==
    \E s \in SubIds, w \in Wallets :
        /\ Created(s) /\ cancelled[s] /\ wallet[s] # w
        /\ ret = Returned("stop", wallet[s], "NotRunning")
        /\ is_subscribed(w)

\* ---------------------------------------------------------------- C10
\* C10: a stream that has terminated as Exhausted has its attempt counter at
\* the maximum, and a stream that has terminated with the counter below the
\* maximum was cancelled.
C10_TerminatesOnlyExhaustedOrCancelled ==
    \A s \in SubIds :
        /\ live[s].pc = "exhausted" => live[s].a = MAX_RECONNECT_ATTEMPTS
        /\ (live[s].pc \in LiveTerminal /\ live[s].a < MAX_RECONNECT_ATTEMPTS)
              => (cancelled[s] /\ live[s].pc = "cancelled")

\* ---------------------------------------------------------------- C11
C11_AttemptStep ==
    \A s \in SubIds :
        /\ (live'[s].pc = "top" /\ live[s].pc # "top")
              => live[s].pc \in {"none", "backoff"}
        /\ (live'[s].pc = "backoff" /\ live[s].pc # "backoff")
              => live'[s].a = live[s].a + 1

\* C11: a stream comes back to the top of its connection loop, where the
\* next connection attempt starts, only out of a backoff sleep (or when the
\* task starts), and every backoff sleep follows an increment of the
\* attempt counter.
C11_ReconnectOnlyAfterBackoff == [][C11_AttemptStep]_vars

\* ---------------------------------------------------------------- C12
C12_CancelStep ==
    \A s \in SubIds :
        cancelled[s] =>
            /\ live'[s].pc = "connecting" => live[s].pc = "connecting"
            /\ live'[s].pc = "exhausted" => live[s].pc = "exhausted"

ExpectedDelay == <<2000, 4000, 8000, 16000, 32000, 64000, 64000, 64000, 64000>>

\* C13: the backoff sleep taken with attempt counter a lasts
\* 1 s * 2^min(a,6): 2 s after the first failure, doubling with every
\* further consecutive failure up to 64 s and staying there.
C13_BackoffDelay ==
    \A s \in SubIds :
        live[s].pc = "backoff" =>
            /\ live[s].a \in 1..(MAX_RECONNECT_ATTEMPTS - 1)
            /\ live[s].delay = ExpectedDelay[live[s].a]
            /\ live[s].delay <= 64000

\* the ninth consecutive failure: the delay has stopped doubling
C13_Witness ==
    \E s \in SubIds :
        live[s].pc = "backoff" /\ live[s].a = 9 /\ live[s].delay = 64000

\* ---------------------------------------------------------------- C14
\* C14: no record whose INSERT failed is left behind by the processor loop:
\* it stays with the processor, to be retried, until it is stored.
C14_FailedInsertIsRetried == \A s \in SubIds : received[s].failed = 0

\* ---------------------------------------------------------------- C15
C15_CountInv ==
    \A s \in SubIds :
        /\ tx_counter[s] >= 0
        /\ tx_counter[s] <= received[s].h + received[s].l - received[s].failed
        /\ ~Created(s) => tx_counter[s] = 0

C15_CountStep ==
    \A s \in SubIds :
        /\ tx_counter'[s] >= tx_counter[s]
        /\ (nsubs' = s /\ nsubs = s - 1) => tx_counter'[s] = 0
        /\ \A o \in {"stored", "stored_panic"} :
              ProcRecv(s, o) => tx_counter'[s] = tx_counter[s] + 1
        /\ \A o \in {"unparsed", "insert_failed"} :
              ProcRecv(s, o) => tx_counter'[s] = tx_counter[s]
        /\ (\A o \in Outcomes : ~ProcRecv(s, o)) => tx_counter'[s] = tx_counter[s]

\* C15: the counter of a subscription starts at 0, never decreases, grows by
\* one exactly in the loop iterations whose INSERT succeeded, and is left
\* alone by every other step, in particular by the iterations of unparsable
\* records and of failed INSERTs.
C15_TxCount == []C15_CountInv /\ [][C15_CountStep]_vars

\* three records received: one stored, one whose INSERT failed, one that
\* did not parse
C15_Witness ==
    \E s \in SubIds :
        /\ received[s].h + received[s].l = 3
        /\ received[s].failed = 1
        /\ tx_counter[s] = 1

\* ---------------------------------------------------------------- C16
\* everything that belongs to subscription t
Group(t) ==
    <<wallet[t], cancelled[t], chan[t], rx[t], senders[t], proc[t], received[t],
      tx_counter[t], hist[t], live[t], socket[t]>>

C16_IsolationStep ==
    \A s, t \in SubIds :
        (s # t /\ proc[s] = "recv" /\ proc'[s] \in ProcTerminal) =>
            /\ Group(t)' = Group(t)
            /\ subscriptions' = subscriptions

C16_RunningInv ==
    \A s, t \in SubIds :
        (s # t /\ proc[s] \in ProcTerminal /\ proc[t] = "recv" /\ chan[t] # <<>>)
            => ENABLED ProcRecv(t, "stored")

RECURSIVE Concat(_)
Concat(pages) == IF pages = <<>> THEN <<>> ELSE Head(pages) \o Concat(Tail(pages))

C17_FetchInv ==
    LET n == Len(work.requests)
        pages == work.responses
    IN /\ n <= work.max + 1
       /\ work.pc \in {"request", "sleep"} => ENABLED HistoryNext
       /\ \A i \in 1..n :
             work.requests[i] = IF i = 1 THEN None
                                ELSE pages[i - 1][Len(pages[i - 1])]
       /\ \A i \in 1..n :
             (i < n \/ work.pc \in {"request", "sleep"}) =>
                 /\ pages[i] # <<>>
                 /\ pages[i] # HttpError
                 /\ Len(Concat(SubSeq(pages, 1, i))) < work.max
       /\ work.pc = "ok" =>
             /\ pages[n] = <<>> \/ Len(Concat(pages)) >= work.max
             /\ Len(work.all_transactions) <= work.max
             /\ work.all_transactions
                  = SubSeq(Concat(pages), 1, Len(work.all_transactions))
             /\ Len(work.all_transactions) = work.max
                  \/ work.all_transactions = Concat(pages)

\* C17: a fetch with limit max sends at most max + 1 requests and can always
\* go on until it returns; the first request carries no cursor and every
\* later one the signature of the last record of the page before it; it
\* goes on only after a non-empty page that leaves fewer than max records
\* accumulated; and when it returns Ok, the last page was empty or max
\* records were reached, and the result is the records of the pages in
\* page order, cut after max.
C17_FetchHistoryPaging == work.fn = "history" /\ C17_FetchInv

\* a fetch of three requests that returned after truncating its last page
C17_Witness ==
    /\ work.fn = "history" /\ work.pc = "ok"
    /\ Len(work.requests) = 3
    /\ work.requests[2] # work.requests[3]
    /\ Len(Concat(work.responses)) > work.max
    /\ Len(work.all_transactions) = work.max

\* ---------------------------------------------------------------- C18
\* C18: a fetch fails only on a request the provider answered with an
\* error: a page that holds a record without signature does not fail it
\* (the record is dropped and the other records of the page are kept).
C18_SignaturelessRecordDropped ==
    (work.fn = "history" /\ work.pc = "err")
        => work.responses[Len(work.responses)] = HttpError

\* ---------------------------------------------------------------- C19
\* the transaction type the event tag stands for
TypeOfEvent(event) ==
    CASE event = <<"S", "W", "A", "P">> -> "Swap"
      [] event \in {<<"D", "E", "P", "O", "S", "I", "T">>,
                    <<"S", "U", "P", "P", "L", "Y">>} -> "Deposit"
      [] event \in {<<"W", "I", "T", "H", "D", "R", "A", "W">>,
                    <<"R", "E", "D", "E", "E", "M">>} -> "Withdraw"
      [] event = <<"B", "O", "R", "R", "O", "W">> -> "Borrow"
      [] event = <<"R", "E", "P", "A", "Y">> -> "Repay"
      [] event = <<"A", "D", "D", "_", "L", "I", "Q", "U", "I", "D", "I", "T", "Y">>
           -> "AddLiquidity"
      [] event = <<"R", "E", "M", "O", "V", "E", "_", "L", "I", "Q", "U", "I", "D", "I", "T", "Y">>
           -> "RemoveLiquidity"
      [] event = <<"T", "R", "A", "N", "S", "F", "E", "R">> -> "None"
      [] OTHER -> "Other"

\* C19: for a record whose protocol is identified, a result of parse has the
\* type its upper-cased event tag stands for (SWAP Swap, DEPOSIT and SUPPLY
\* Deposit, WITHDRAW and REDEEM Withdraw, BORROW Borrow, REPAY Repay,
\* ADD_LIQUIDITY AddLiquidity, REMOVE_LIQUIDITY RemoveLiquidity); TRANSFER
\* gives no result; any other tag gives a Swap, and only if the decoder tag
\* is swap-like.
C19_ParseDispatch ==
    (work.fn = "parse" /\ work.pc = "done"
        /\ identify_protocol(work.tx) # NoProtocol) =>
        LET type == TypeOfEvent(to_uppercase(work.tx.event_type))
        IN /\ type = "None" => work.result = NoResult
           /\ type = "Other" =>
                 /\ ~is_swap_decoder(work.tx.decoder_type) => work.result = NoResult
                 /\ work.result # NoResult => work.result.tx_type = "Swap"
           /\ (type \notin {"None", "Other"} /\ work.result # NoResult)
                 => work.result.tx_type = type

\* ---------------------------------------------------------------- C20
\* C20: every Swap that parse returns has a non-empty token_in, a non-empty
\* token_out, amount_in > 0 and amount_out > 0.
C20_SwapHasBothSides ==
    (work.fn = "parse" /\ work.pc = "done" /\ work.result # NoResult) =>
        (work.result.tx_type = "Swap" =>
            /\ work.result.token_in # "" /\ work.result.token_out # ""
            /\ work.result.amount_in > 0 /\ work.result.amount_out > 0)

\* ---------------------------------------------------------------- C21
\* C21: every ParsedTransaction that the pipeline produces, from a record of
\* the live stream or from a converted history record, has a non-empty
\* signature and a block time in milliseconds above 0.
C21_SignatureAndBlockTime ==
    (work.fn = "decode" /\ work.pc = "parsed" /\ work.result # NoResult) =>
        /\ work.result.signature # ""
        /\ work.result.block_time > 0

\* ---------------------------------------------------------------- C22
\* C22: for every JSON value that from_value accepts, the decoded record
\* written as JSON and decoded again parses to the same result for the
\* wallet as the decoded record itself (no result in both cases included).
C22_RoundTripParsesAlike ==
    (work.fn = "decode" /\ work.via = "live" /\ work.pc = "again") =>
        work.again = work.result

\* a record given with camelCase keys, a nested uiAmount and a token as an
\* object, whose JSON after decoding differs from it and which parses to a
\* transaction
C22_Witness ==
    /\ work.fn = "decode" /\ work.via = "live" /\ work.pc = "again"
    /\ work.result # NoResult
    /\ work.again # NoResult
    /\ work.json # work.raw
    /\ "txSignature" \in DOMAIN work.raw.v
    /\ \/ "tokenIn" \in DOMAIN work.raw.v /\ work.result.token_in = "MINT_A"
       \/ "uiAmount" \in DOMAIN work.raw.v /\ work.result.amount_in = 3

\* ---------------------------------------------------------------- C23
\* the value of the formula of the risk score for shares L and P given as
\* quotients
RiskFormula(L, P, protocols, positions) ==
    LET Floor(q, k) == (q.n * k) \div q.d
        d == IF protocols = 1 THEN 20 ELSE IF protocols = 2 THEN 10
             ELSE IF protocols = 3 THEN 5 ELSE 0
        c == IF positions = 0 THEN 10 ELSE IF positions <= 3 THEN 5
             ELSE IF positions <= 10 THEN 0 ELSE 5
    IN Min(100, Min(40, Floor(L, 40)) + Min(30, Floor(P, 30)) + d + c)

\* C23: the score of every call lies in 0..100; for shares L, P >= 0 and at
\* least one protocol it equals min(100, min(40, floor(40 L)) +
\* min(30, floor(30 P)) + d + c); no smaller L and no smaller P gives a
\* larger score; and compute_risk of the single position (SOL, Jupiter,
\* $10000) scores 95.
C23_RiskScore ==
    /\ (work.fn = "risk" /\ work.pc = "scored") =>
         LET L == work.largest_position_pct
             P == work.protocol_concentration
             Leq(a, b) == a.n * b.d <= b.n * a.d
         IN /\ work.result \in 0..100
            /\ (L.n >= 0 /\ P.n >= 0 /\ work.protocol_count >= 1) =>
                   work.result = RiskFormula(L, P, work.protocol_count,
                                             work.position_count)
            /\ \A q \in RiskShares :
                   /\ Leq(q, L) =>
                        calculate_risk_score(q, P, work.protocol_count,
                                             work.position_count) <= work.result
                   /\ Leq(q, P) =>
                        calculate_risk_score(L, q, work.protocol_count,
                                             work.position_count) <= work.result
    /\ (work.fn = "risk" /\ work.pc = "computed") =>
         /\ work.result.score \in 0..100
         /\ work.transactions =
                <<[tx_type |-> "Deposit", protocol |-> "Jupiter", token_in |-> "SOL",
                   token_out |-> "", usd_value |-> 10000]>>
              => work.result.score = 95

\* the single position (SOL, Jupiter, $10000) scored through compute_risk
C23_Witness ==
    /\ work.fn = "risk" /\ work.pc = "computed"
    /\ Len(work.transactions) = 1
    /\ work.result.position_count = 1
    /\ work.result.largest_position_pct = Q(10000, 10000)
    /\ work.result.score = 95

\* ---------------------------------------------------------------- C24
\* four open positions of $2500 each, spread over three protocols
FourOverThree ==
    /\ work.fn = "risk" /\ work.pc = "computed"
    /\ Len(work.transactions) = 4
    /\ \A i \in 1..4 : /\ work.transactions[i].tx_type = "Deposit"
                       /\ work.transactions[i].usd_value = 2500
    /\ Cardinality({<<work.transactions[i].token_in, work.transactions[i].protocol>> :
                       i \in 1..4}) = 4
    /\ Cardinality({work.transactions[i].protocol : i \in 1..4}) = 3

\* C24 (as stated): for four open positions of $2500 each over three
\* protocols, largest_position_pct = 0.25, protocol_concentration is about
\* 0.33 (between 0.32 and 0.34), 3 protocols, 4 positions, and the score is
\* 25 within rounding (24..26).
C24_DiversifiedScores25 ==
    FourOverThree =>
        LET P == work.result.protocol_concentration
        IN /\ work.result.largest_position_pct.n * 4 = work.result.largest_position_pct.d
           /\ 32 * P.d <= 100 * P.n /\ 100 * P.n <= 34 * P.d
           /\ work.result.protocol_count = 3
           /\ work.result.position_count = 4
           /\ work.result.score \in 24..26

\* C24 (corrected): for four open positions of $2500 each over three
\* protocols, largest_position_pct = 0.25, protocol_concentration = 0.5 (one
\* protocol holds two of the four positions), 3 protocols, 4 positions, and
\* the score is 10 + 15 + 5 + 0 = 30.
C24_DiversifiedScores30 ==
    FourOverThree =>
        LET P == work.result.protocol_concentration
        IN /\ work.result.largest_position_pct.n * 4 = work.result.largest_position_pct.d
           /\ P.n * 2 = P.d
           /\ work.result.protocol_count = 3
           /\ work.result.position_count = 4
           /\ work.result.score = 30

C24_Witness ==
    /\ FourOverThree
    /\ work.result.protocol_concentration = Q(5000, 10000)
    /\ work.result.score = 30

\* ---------------------------------------------------------------- C25
C25_WithdrawStep ==
    (work.fn = "pnl" /\ work.pc = "loop" /\ work.i <= Len(work.transactions)) =>
        LET tx == work.transactions[work.i]
            held == work.token_positions
        IN (/\ tx.tx_type \in {"Withdraw", "RemoveLiquidity"}
            /\ tx.token_out \in DOMAIN held
            /\ held[tx.token_out].amount > 0) =>
               LET a == held[tx.token_out].amount
                   c == held[tx.token_out].cost_basis
                   w == tx.amount_out
                   left == work'.token_positions[tx.token_out]
               IN /\ work'.pc = "loop"
                  /\ left.amount = a - w
                  /\ left.cost_basis.n * (c.d * a) = c.n * (a - w) * left.cost_basis.d

\* C25: a Withdraw or RemoveLiquidity of amount w from a position holding
\* amount a > 0 with cost basis c leaves amount a - w and cost basis
\* c (1 - w / a), which is 0 after a full withdrawal (w = a).
C25_WithdrawReducesCostBasis == [][C25_WithdrawStep]_vars

\* ---------------------------------------------------------------- C26
\* C26: a wallet with one SOL position of $15000 and pnl +5000 and one $500
\* YES bet on "Will SOL flip ETH?" gets exactly one signal, for the asset SOL,
\* a bullish alignment of strength 0.925; its conviction score is 0.925 and
\* its confidence Medium.
C26_SolFlipEth ==
    (/\ work.fn = "conviction" /\ work.pc = "returned"
     /\ Len(work.wallet.defi_positions) = 1
     /\ work.wallet.defi_positions[1].token_symbol = <<"S", "O", "L">>
     /\ work.wallet.defi_positions[1].usd_value = 15000
     /\ work.wallet.defi_positions[1].unrealized_pnl = 5000
     /\ Len(work.wallet.prediction_bets) = 1
     /\ work.wallet.prediction_bets[1].market_title = <<"W", "i", "l", "l", " ", "S", "O", "L", " ", "f", "l", "i", "p", " ", "E", "T", "H", "?">>
     /\ work.wallet.prediction_bets[1].outcome = <<"Y", "E", "S">>
     /\ work.wallet.prediction_bets[1].amount_usd = 500) =>
        /\ work.conviction.ok
        /\ Len(work.conviction.signals) = 1
        /\ work.conviction.signals[1].asset = <<"S", "O", "L">>
        /\ work.conviction.signals[1].signal_type = "BullishAlignment"
        /\ work.conviction.signals[1].strength = 925000
        /\ work.conviction.conviction_score = Q(925000, 1)
        /\ work.conviction.confidence = "Medium"
        /\ work.response.conviction_score = Q(925000, 1)
        /\ work.response.confidence = "medium"

\* ---------------------------------------------------------------- C27
\* C27: the signal of a bet treats the bet as bullish exactly when its
\* outcome, upper-cased, is YES or contains ABOVE, OVER, UP or HIGHER: with a
\* bullish position it is then a bullish alignment, with a bearish position a
\* contradiction; a bet with any other outcome is bearish.
C27_BullishOutcomes ==
    (work.fn = "conviction" /\ work.pc = "calculated" /\ work.conviction.ok) =>
        \A i \in 1..Len(work.conviction.signals) :
            LET s == work.conviction.signals[i]
                outcome == to_uppercase(s.outcome)
                bullish_bet == \/ outcome = <<"Y", "E", "S">>
                               \/ contains(outcome, <<"A", "B", "O", "V", "E">>)
                               \/ contains(outcome, <<"O", "V", "E", "R">>)
                               \/ contains(outcome, <<"U", "P">>)
                               \/ contains(outcome, <<"H", "I", "G", "H", "E", "R">>)
                bullish_position == s.total_exposure > 0 /\ s.total_pnl >= 0
            IN s.signal_type =
                 IF bullish_bet # bullish_position THEN "Contradiction"
                 ELSE IF bullish_bet THEN "BullishAlignment"
                 ELSE "BearishAlignment"

\* ---------------------------------------------------------------- C28
\* C28: the signals are those of the bets that have a position relevant to
\* their asset, at most one per bet; the score is 0 without a signal and
\* else the mean of the strengths clamped to [0, 1]; it lies in [0, 1].
C28_ScoreIsClampedMean ==
    (work.fn = "conviction" /\ work.pc = "calculated" /\ work.conviction.ok) =>
        LET signals == work.conviction.signals
            score == work.conviction.conviction_score
            RECURSIVE Total(_)
            Total(n) == IF n = 0 THEN 0 ELSE signals[n].strength + Total(n - 1)
            total == Total(Len(signals))
        IN /\ Len(signals) <= Len(work.wallet.prediction_bets)
           /\ \A i \in 1..Len(signals) : signals[i].positions >= 1
           /\ signals = <<>> => score.n = 0
           /\ signals # <<>> =>
                score.n * Len(signals) =
                    score.d * (IF total < 0 THEN 0
                               ELSE IF total > 1000000 * Len(signals)
                               THEN 1000000 * Len(signals) ELSE total)
           /\ 0 <= score.n /\ score.n <= 1000000 * score.d

\* ---------------------------------------------------------------- C29
\* C29: for a wallet without positions and without bets the conviction
\* operation returns a response, not an error: score 0, confidence low, no
\* signals, and a text saying that no conviction could be calculated.
C29_EmptyWalletGetsEnvelope ==
    (/\ work.fn = "conviction" /\ work.pc = "returned"
     /\ work.wallet.defi_positions = <<>>
     /\ work.wallet.prediction_bets = <<>>) =>
        /\ work.response.ok
        /\ work.response.conviction_score.n = 0
        /\ work.response.confidence = "low"
        /\ work.response.signals_count = 0
        /\ work.response.signals = <<>>
        /\ work.response.interpretation = "Unable to calculate conviction"

\* the empty wallet, for which calculate_conviction returned InsufficientData
C29_Witness ==
    /\ work.fn = "conviction" /\ work.pc = "returned"
    /\ work.wallet.defi_positions = <<>>
    /\ work.wallet.prediction_bets = <<>>
    /\ ~work.conviction.ok
    /\ work.conviction.error = "InsufficientData"
    /\ work.response.ok

C31_SnapshotReturns ==
    /\ [](work.fn = "snapshot" => work.transactions <= 1000)
    /\ [](work.fn = "snapshot" /\ work.pc = "returned" /\ work.result = "Ok"
            => \/ work.transactions = 1000
               \/ work.transactions < 1000 /\ work.now >= work.deadline)
    /\ (work.fn = "snapshot" /\ work.pc = "collect"
          /\ (work.transactions >= 1000 \/ work.now >= work.deadline))
       ~> (work.pc = "returned")
    /\ (work.fn = "snapshot" /\ work.pc = "collect" /\ work.task = "ended")
       ~> (work.pc = "returned")
    /\ (work.fn = "snapshot" /\ work.pc = "collect" /\ work.matched = 0)
       ~> (work.pc = "returned")

\* the socket closed before any record of the wallet arrived and the call
\* returned at the deadline with no record
C31_Witness ==
    /\ work.fn = "snapshot" /\ work.pc = "returned" /\ work.result = "Ok"
    /\ work.matched = 0 /\ work.transactions = 0
    /\ work.now = work.deadline /\ work.now >= 15

\* ---------------------------------------------------------------- C32
\* C32: resolve_dispute succeeds only when an authorized resolver, the oracle
\* or the DAO, signs it: a call signed by any other account, the attester for
\* one, is rejected.
C32_OnlyResolverResolves ==
    (work.fn = "registry" /\ work.last.ix = "resolve_dispute"
       /\ work.last.result = "Ok")
    => work.last.signer \in {"oracle", "dao"}

\* ---------------------------------------------------------------- C40
\* C40: an attestation is resolved at most once and only if its type is
\* Disputed: resolve_dispute succeeds only from status Active and moves the
\* status to Validated, Slashed or Withdrawn according to the resolution; a
\* status other than Active never changes again, and every later
\* resolve_dispute on the attestation fails with AlreadyResolved.
C40_ResolveStep ==
    work.fn = "registry" =>
    \A a \in Signers :
        LET before == work.attestation[a]
            after == work'.attestation[a]
            resolving == work'.last.ix = "resolve_dispute" /\ work'.last.account = a
            Resolved(resolution) ==
                CASE resolution = "AttesterCorrect" -> "Validated"
                  [] resolution = "AttesterIncorrect" -> "Slashed"
                  [] resolution = "Inconclusive" -> "Withdrawn"
        IN /\ (before.exists /\ before.status # "Active") => after = before
           /\ (resolving /\ work'.last.result = "Ok")
              => /\ before.exists
                 /\ before.attestation_type = "Disputed"
                 /\ before.status = "Active"
                 /\ after = [before EXCEPT !.status = Resolved(work'.last.arg)]
           /\ (resolving /\ before.exists /\ before.attestation_type = "Disputed"
                 /\ before.status # "Active")
              => work'.last.result = "AlreadyResolved"
           /\ (before.exists /\ after # before)
              => resolving /\ work'.last.result = "Ok"

C40_ResolvedOnce == [][C40_ResolveStep]_vars

\* a resolved dispute on which a later resolve_dispute has failed
C40_Witness ==
    /\ work.fn = "registry"
    /\ work.last.ix = "resolve_dispute" /\ work.last.result = "AlreadyResolved"
    /\ work.attestation[work.last.account].status = "Slashed"

\* ---------------------------------------------------------------- C33
C33_OldGroupQuietStep ==
    \A s, t \in SubIds :
        (/\ s # t /\ Created(s) /\ Created(t)
         /\ wallet[s] = wallet[t]
         /\ cancelled[s] /\ ~cancelled[t]
         /\ proc[t] = "recv")
        => /\ received'[s] = received[s]
           /\ tx_counter'[s] = tx_counter[s]

\* C33: at most one task group is alive per wallet: once stop(W) and a
\* following start(W) have returned and the processor of the new
\* subscription runs, the processor of the old subscription takes no further
\* record from its channel and inserts no further record for W.
C33_OneTaskGroupPerWallet == [][C33_OldGroupQuietStep]_vars

\* ---------------------------------------------------------------- C34
\* C34: every entry list() returns has running = true, because stop removes
\* the entry from the map before it cancels the token, both under the write
\* guard; this includes the entries whose live stream or processor has
\* already ended.
C34_ListedIsRunning ==
    /\ \A e \in list_subscriptions : e.running
    /\ \A e \in subscriptions :
          \E l \in list_subscriptions : l.wallet = e[1] /\ l.running

\* a listed subscription whose live stream has given up and whose processor
\* has ended
C34_Witness ==
    \E e \in subscriptions :
        /\ live[e[2]].pc \in LiveTerminal
        /\ proc[e[2]] \in ProcTerminal
        /\ \E l \in list_subscriptions : l.wallet = e[1] /\ l.running

\* ---------------------------------------------------------------- C35
\* C35: history delivery is all or nothing: the history producer sends a
\* record only after the whole paged fetch has succeeded, and after a failed
\* page request none of the records of the earlier pages is sent: none is in
\* the channel and none has reached the processor.
C35_HistoryAllOrNothing ==
    \A s \in SubIds :
        hist[s].pc \in {"none", "fetch", "sleep", "failed"}
        => /\ hist[s].sent = 0
           /\ received[s].h = 0
           /\ \A i \in 1..Len(chan[s]) : chan[s][i][1] # "h"

\* a fetch that failed after a page had been fetched
C35_Witness ==
    \E s \in SubIds :
        /\ hist[s].pc = "failed" /\ hist[s].fetched >= 1
        /\ hist[s].sent = 0
        /\ proc[s] \in ProcTerminal

\* ---------------------------------------------------------------- C36
\* C36: compute_pnl returns a result for every list of transactions: a
\* Withdraw or RemoveLiquidity with a non-zero amount_out for a token without
\* a prior position, or with a position of amount 0, divides by no zero.
C36_PnlNeverPanics ==
    work.fn = "pnl" => work.pc # "panicked"

\* ---------------------------------------------------------------- C37
\* C37: a Deposit of amount x of token T followed by a Withdraw of x of T,
\* both normalised by parse_transaction from a DEPOSIT and a WITHDRAW event,
\* leaves no open position for T in compute_pnl: the normalised withdrawal
\* carries T and x on the side (token_out, amount_out) that the Withdraw arm
\* reads.
C37_DepositWithdrawClosesPosition ==
    (work.fn = "pnl" /\ work.pc = "done"
        /\ work.transactions \in DepositThenWithdraw) =>
        LET deposit == work.transactions[1]
            withdraw == work.transactions[2]
            T == deposit.token_in
        IN /\ withdraw.token_out = T
           /\ withdraw.amount_out = deposit.amount_in
           /\ T \in DOMAIN work.token_positions =>
                  work.token_positions[T].amount = 0

\* ---------------------------------------------------------------- C38
\* C38: detect_anomalies(slug, t) answers with the anomalies computed for
\* threshold t: a result cached for one threshold is never served to a
\* request for the same slug with another threshold.
C38_AnomaliesForThreshold ==
    (work.fn = "cache" /\ work.last.tool = "detect_anomalies" /\ work.last.ok) =>
        work.last.data = QueryEngine_detect_anomalies(work.last.slug, work.last.arg)

\* ---------------------------------------------------------------- C39
\* C39: after invalidate_slug(s) the cache holds no entry of slug s: no
\* volume profile, no anomalies, and no market trend for any interval that
\* validate_interval accepts.
C39_InvalidateDropsSlug ==
    (work.fn = "cache" /\ work.last.tool = "invalidate_slug") =>
        \A key \in DOMAIN work.cache :
            key[2] = work.last.slug =>
                /\ key[1] \notin {"VolumeProfile", "Anomalies"}
                /\ ~(key[1] = "MarketTrend" /\ validate_interval(key[3]))

====
